---- MODULE Spec2Model ----
(***************************************************************************)
(* Verification model of the tradepopping EODHD bulk-ingest scheduler:     *)
(* the durable work queue (backend/app/datalake/eodhd_queue.py), the job   *)
(* record (backend/app/datalake/ingest_jobs.py), the bar store with its    *)
(* archive (backend/app/datalake/bar_store.py), the ingest routes with    *)
(* their universe selection (backend/app/routes/datalake_eodhd.py) and the *)
(* resumable worker loop that drives them.                                 *)
(***************************************************************************)
EXTENDS Integers, Sequences, FiniteSets, TLC

VARIABLES
    queue,      \* table eodhd_ingest_queue: primary key -> row
    now,        \* datetime.utcnow(), in minutes
    ret,        \* what the last call or worker loop returned to its caller
    jobs,       \* table eodhd_ingest_jobs: job id -> job record
    workers,    \* background worker tasks: task slot -> task state
    vendor,     \* how the vendor answers for each symbol
    txns,       \* pop_next calls in flight: caller -> transaction state
    daily_bars,         \* table daily_bars: (symbol, trade_date) -> columns
    daily_bars_archive, \* table daily_bars_archive, same schema
    archiving   \* the archive_old_daily_bars call in flight, if any

vars == <<queue, now, ret, jobs, workers, vendor, txns,
          daily_bars, daily_bars_archive, archiving>>

(***************************************************************************)
(* Bounds of the model.                                                    *)
(***************************************************************************)
\* max_attempts handed to pop_next (a parameter; the source's default is 5)
MaxAttempts == 2
\* the clock advances at most this many times
MaxTicks == 1

\* stale_minutes: int = 10
StaleMinutes == 10
\* err[:500]
ErrCap == 500

\* job ids whose queue the API calls below work on
QueueJobs == {"j1"}
\* symbols as callers pass them; the store upper-cases them
InputSymbols == {"a", "B"}
\* (window_start, window_end) pairs, dates as day numbers
Windows == {<<1, 2>>, <<3, 4>>}
\* the items lists handed to enqueue: (symbol, window_start, window_end)
ItemLists ==
    { <<>>,
      << <<"a", 1, 2>> >>,
      << <<"B", 1, 2>> >>,
      << <<"A", 1, 2>>, <<"A", 3, 4>> >>,
      << <<"a", 1, 2>>, <<"A", 1, 2>> >>,
      << <<"A", 3, 4>>, <<"B", 1, 2>>, <<"a", 3, 4>> >> }
\* stringified exceptions handed to mark_failed
Errs == {<<"e", "r", "r">>}

\* SQL NULL / Python None, and a present value
None == <<>>
Some(x) == <<x>>

\* str.upper()
Upper(s) == CASE s = "a" -> "A" [] s = "b" -> "B" [] s = "nyse" -> "NYSE" [] OTHER -> s

\* collation of TEXT values in ORDER BY symbol ASC
SymOrd(s) == CASE s = "A" -> 1 [] s = "B" -> 2 [] s = "a" -> 3 [] s = "b" -> 4 [] OTHER -> 5

Key(job_id, symbol, ws, we) ==
    [job_id |-> job_id, symbol |-> symbol, window_start |-> ws, window_end |-> we]

\* the rows of one job
RowsOf(q, job_id) == {k \in DOMAIN q : k.job_id = job_id}

(***************************************************************************)
(* enqueue                                                                 *)
(***************************************************************************)
\* VALUES (?, ?, ?, ?, 'pending', 0, ?, NULL, NULL)
NewRow == [state |-> "pending", attempts |-> 0, last_attempt_at |-> None, last_error |-> None]

\* variant: INSERT OR REPLACE
InsertOrIgnore_Replace(q, k) ==
    [x \in DOMAIN q \cup {k} |-> IF x = k THEN NewRow ELSE q[x]]

\* INSERT OR IGNORE of one item
InsertOrIgnore(q, k) ==
    IF k \in DOMAIN q THEN q
    ELSE [x \in DOMAIN q \cup {k} |-> IF x = k THEN NewRow ELSE q[x]]

RECURSIVE EnqueueLoop(_, _, _)
\* for sym, ws, we in items: INSERT OR IGNORE ...
EnqueueLoop(q, job_id, items) ==
    IF items = <<>> THEN q
    ELSE LET it == Head(items) IN
         EnqueueLoop(InsertOrIgnore(q, Key(job_id, Upper(it[1]), it[2], it[3])),
                     job_id, Tail(items))

\* the table after enqueue(job_id=..., items=...)
enqueue(q, job_id, items) == IF items = <<>> THEN q ELSE EnqueueLoop(q, job_id, items)

\* the value enqueue returns
enqueue_return(q, job_id, items) == IF items = <<>> THEN 0 ELSE Len(items)

(***************************************************************************)
(* reset_stale_running_to_pending                                          *)
(***************************************************************************)
\* WHERE job_id = ? AND state = 'running' AND (last_attempt_at IS NULL OR last_attempt_at < cutoff)
\* variant: the state = 'running' condition left out of the WHERE clause
IsStale_AnyState(row, t, stale_minutes) ==
    \/ row.last_attempt_at = None
    \/ row.last_attempt_at[1] < t - stale_minutes

IsStale(row, t, stale_minutes) ==
    /\ row.state = "running"
    /\ \/ row.last_attempt_at = None
       \/ row.last_attempt_at[1] < t - stale_minutes

\* variant: job_id = ? left out of the WHERE clause
reset_stale_running_to_pending_AllJobs(q, job_id, t, stale_minutes) ==
    [k \in DOMAIN q |->
        IF IsStale(q[k], t, stale_minutes)
        THEN [q[k] EXCEPT !.state = "pending"]
        ELSE q[k]]

reset_stale_running_to_pending(q, job_id, t, stale_minutes) ==
    [k \in DOMAIN q |->
        IF k.job_id = job_id /\ IsStale(q[k], t, stale_minutes)
        THEN [q[k] EXCEPT !.state = "pending"]
        ELSE q[k]]

(***************************************************************************)
(* pop_next                                                                *)
(***************************************************************************)
\* variant: attempts <= ? in place of attempts < ?
Eligible_AttemptsLeq(q, k, job_id, max_attempts) ==
    /\ k.job_id = job_id
    /\ q[k].state \in {"pending", "failed"}
    /\ q[k].attempts <= max_attempts

\* variant: state = 'pending' in place of state IN ('pending', 'failed')
Eligible_PendingOnly(q, k, job_id, max_attempts) ==
    /\ k.job_id = job_id
    /\ q[k].state = "pending"
    /\ q[k].attempts < max_attempts

\* variant: attempts + 1 < ? in place of attempts < ?
Eligible_OffByOne(q, k, job_id, max_attempts) ==
    /\ k.job_id = job_id
    /\ q[k].state \in {"pending", "failed"}
    /\ q[k].attempts + 1 < max_attempts

\* WHERE job_id = ? AND state IN ('pending', 'failed') AND attempts < ?
Eligible(q, k, job_id, max_attempts) ==
    /\ k.job_id = job_id
    /\ q[k].state \in {"pending", "failed"}
    /\ q[k].attempts < max_attempts

\* variant: failed rows ordered before pending rows
StateOrd_FailedFirst(state) == IF state = "failed" THEN 0 ELSE 1

\* CASE WHEN state = 'pending' THEN 0 ELSE 1 END
StateOrd(state) == IF state = "pending" THEN 0 ELSE 1

\* ORDER BY CASE ..., attempts ASC, symbol ASC: row a sorts strictly before row b
SortsBefore(q, a, b) ==
    \/ StateOrd(q[a].state) < StateOrd(q[b].state)
    \/ /\ StateOrd(q[a].state) = StateOrd(q[b].state)
       /\ q[a].attempts < q[b].attempts
    \/ /\ StateOrd(q[a].state) = StateOrd(q[b].state)
       /\ q[a].attempts = q[b].attempts
       /\ SymOrd(a.symbol) < SymOrd(b.symbol)

\* the rows SELECT ... ORDER BY ... LIMIT 1 may fetch: the ORDER BY leaves the
\* order of rows that tie on all three sort keys to the engine
pop_select(q, job_id, max_attempts) ==
    {k \in DOMAIN q :
        /\ Eligible(q, k, job_id, max_attempts)
        /\ \A o \in DOMAIN q :
              Eligible(q, o, job_id, max_attempts) => ~SortsBefore(q, o, k)}

\* variant: last_attempt_at left out of the SET list
pop_update_NoTimestamp(q, k, t) ==
    [q EXCEPT ![k] = [state |-> "running",
                      attempts |-> q[k].attempts + 1,
                      last_attempt_at |-> q[k].last_attempt_at,
                      last_error |-> None]]

\* variant: last_error = NULL left out of the SET list
pop_update_KeepsError(q, k, t) ==
    [q EXCEPT ![k] = [state |-> "running",
                      attempts |-> q[k].attempts + 1,
                      last_attempt_at |-> Some(t),
                      last_error |-> q[k].last_error]]

\* UPDATE ... SET state = 'running', attempts = ?, last_attempt_at = ?, last_error = NULL
pop_update(q, k, t) ==
    [q EXCEPT ![k] = [state |-> "running",
                      attempts |-> q[k].attempts + 1,
                      last_attempt_at |-> Some(t),
                      last_error |-> None]]

\* the dict pop_next returns for the fetched row
pop_item(q, k) ==
    [symbol |-> k.symbol, window_start |-> k.window_start,
     window_end |-> k.window_end, attempts |-> q[k].attempts + 1]

(***************************************************************************)
(* mark_succeeded / mark_failed                                            *)
(***************************************************************************)
\* variant: SET last_error=NULL only, the state left as it is
mark_succeeded_KeepsState(q, job_id, symbol, ws, we) ==
    LET k == Key(job_id, Upper(symbol), ws, we) IN
    IF k \in DOMAIN q THEN [q EXCEPT ![k] = [@ EXCEPT !.last_error = None]] ELSE q

\* UPDATE ... SET state='succeeded', last_error=NULL WHERE <primary key>
mark_succeeded(q, job_id, symbol, ws, we) ==
    LET k == Key(job_id, Upper(symbol), ws, we) IN
    IF k \in DOMAIN q
    THEN [q EXCEPT ![k] = [@ EXCEPT !.state = "succeeded", !.last_error = None]]
    ELSE q

\* err[:500]
Truncate(err) == IF Len(err) <= ErrCap THEN err ELSE SubSeq(err, 1, ErrCap)

\* variant: WHERE job_id = ? only, the rest of the primary key left out
mark_failed_WholeJob(q, job_id, symbol, ws, we, err) ==
    [k \in DOMAIN q |->
        IF k.job_id = job_id
        THEN [q[k] EXCEPT !.state = "failed", !.last_error = Some(Truncate(err))]
        ELSE q[k]]

\* UPDATE ... SET state='failed', last_error=? WHERE <primary key>
mark_failed(q, job_id, symbol, ws, we, err) ==
    LET k == Key(job_id, Upper(symbol), ws, we) IN
    IF k \in DOMAIN q
    THEN [q EXCEPT ![k] = [@ EXCEPT !.state = "failed", !.last_error = Some(Truncate(err))]]
    ELSE q

(***************************************************************************)
(* get_counts                                                              *)
(***************************************************************************)
CountState(q, job_id, state) ==
    Cardinality({k \in RowsOf(q, job_id) : q[k].state = state})

get_counts(q, job_id) ==
    [pending   |-> CountState(q, job_id, "pending"),
     running   |-> CountState(q, job_id, "running"),
     succeeded |-> CountState(q, job_id, "succeeded"),
     failed    |-> CountState(q, job_id, "failed"),
     total     |-> Cardinality(RowsOf(q, job_id))]

(***************************************************************************)
(* The queue store under arbitrary calls of its API.                       *)
(***************************************************************************)
NoRet == [op |-> "none", job_id |-> "", val |-> None, again |-> None]

\* callers of pop_next that may run at the same time
Callers == {"p1", "p2"}

IdleTxn == [pc |-> "idle", job_id |-> "", snap |-> << >>, key |-> None, val |-> None]

InitQueue ==
    /\ queue = << >>
    /\ now = 0
    /\ ret = NoRet
    /\ txns = [p \in Callers |-> IdleTxn]
    /\ daily_bars = << >>
    /\ daily_bars_archive = << >>
    /\ archiving = None

IdleRest ==
    UNCHANGED <<jobs, workers, vendor, txns, daily_bars, daily_bars_archive, archiving>>

Enqueue ==
    \E job_id \in QueueJobs, items \in ItemLists :
        /\ queue' = enqueue(queue, job_id, items)
        /\ ret' = [op |-> "enqueue", job_id |-> job_id,
                   val |-> Some(enqueue_return(queue, job_id, items)), again |-> None]
        /\ UNCHANGED now
        /\ IdleRest

ResetStale ==
    \E job_id \in QueueJobs :
        /\ queue' = reset_stale_running_to_pending(queue, job_id, now, StaleMinutes)
        /\ ret' = NoRet
        /\ UNCHANGED now
        /\ IdleRest

\* One call of pop_next. `again` is what a second execution of the SELECT on the
\* same snapshot fetches.
PopNext ==
    \E job_id \in QueueJobs :
        LET cands == pop_select(queue, job_id, MaxAttempts) IN
        /\ IF cands = {}
           THEN /\ queue' = queue
                /\ ret' = [op |-> "pop_next", job_id |-> job_id, val |-> None, again |-> None]
           ELSE \E k \in cands, k2 \in cands :
                /\ queue' = pop_update(queue, k, now)
                /\ ret' = [op |-> "pop_next", job_id |-> job_id,
                           val |-> Some(pop_item(queue, k)),
                           again |-> Some(pop_item(queue, k2))]
        /\ UNCHANGED now
        /\ IdleRest

MarkSucceeded ==
    \E job_id \in QueueJobs, symbol \in InputSymbols, w \in Windows :
        /\ queue' = mark_succeeded(queue, job_id, symbol, w[1], w[2])
        /\ ret' = NoRet
        /\ UNCHANGED now
        /\ IdleRest

MarkFailed ==
    \E job_id \in QueueJobs, symbol \in InputSymbols, w \in Windows, err \in Errs :
        /\ queue' = mark_failed(queue, job_id, symbol, w[1], w[2], err)
        /\ ret' = NoRet
        /\ UNCHANGED now
        /\ IdleRest

\* time passes: one step of the clock is longer than the stale threshold
TickMinutes == StaleMinutes + 1

\* A live worker finishes the item it holds before the item turns stale (the
\* vendor call runs under a timeout far below the stale threshold).
Tick ==
    /\ now < MaxTicks * TickMinutes
    /\ \A w \in DOMAIN workers : workers[w].pc # "exec"
    /\ now' = now + TickMinutes
    /\ ret' = NoRet
    /\ UNCHANGED queue
    /\ IdleRest

Init ==
    /\ InitQueue
    /\ jobs = << >>
    /\ workers = << >>
    /\ vendor = [sym \in {"A", "B"} |-> "ok"]

Next ==
    \/ Enqueue
    \/ ResetStale
    \/ PopNext
    \/ MarkSucceeded
    \/ MarkFailed
    \/ Tick

Spec == Init /\ [][Next]_vars

(***************************************************************************)
(* The job store (ingest_jobs.py).                                         *)
(***************************************************************************)
\* INSERT INTO eodhd_ingest_jobs: state 'running', finished_at NULL
create_ingest_job(js, job_id, t, universe, attempted, succeeded, failed, last_error) ==
    [x \in DOMAIN js \cup {job_id} |->
        IF x = job_id
        THEN [created_at |-> t, started_at |-> Some(t), finished_at |-> None,
              state |-> "running",
              universe_symbols_considered |-> universe,
              symbols_attempted |-> attempted,
              symbols_succeeded |-> succeeded,
              symbols_failed |-> failed,
              last_error |-> last_error]
        ELSE js[x]]

\* UPDATE ... SET [state,] [universe_symbols_considered,] counters, last_error
\* WHERE id = ?; never touches finished_at
update_ingest_job_progress(js, job_id, state, universe, attempted, succeeded, failed, last_error) ==
    IF job_id \notin DOMAIN js THEN js
    ELSE [js EXCEPT ![job_id] =
            [@ EXCEPT !.state = IF state # None THEN state[1] ELSE @,
                      !.universe_symbols_considered = IF universe # None THEN universe[1] ELSE @,
                      !.symbols_attempted = attempted,
                      !.symbols_succeeded = succeeded,
                      !.symbols_failed = failed,
                      !.last_error = last_error]]

\* UPDATE ... WHERE id = ?; finished_at is set only when state != 'running'
update_ingest_job(js, job_id, t, state, attempted, succeeded, failed, last_error) ==
    IF job_id \notin DOMAIN js THEN js
    ELSE [js EXCEPT ![job_id] =
            [@ EXCEPT !.finished_at = IF state = "running" THEN @ ELSE Some(t),
                      !.state = state,
                      !.symbols_attempted = attempted,
                      !.symbols_succeeded = succeeded,
                      !.symbols_failed = failed,
                      !.last_error = last_error]]

(***************************************************************************)
(* The bar store (datalake/bar_store.py): the hot table daily_bars and the *)
(* cold table daily_bars_archive, both keyed by (symbol, trade_date).      *)
(***************************************************************************)
BarKey(symbol, trade_date) == [symbol |-> symbol, trade_date |-> trade_date]

\* datetime.fromisoformat(b["time"]).date(); a time is (day number, hour)
TradeDate(time) == time[1]

\* b.get(key): the value, or None for a key the DTO does not carry
BarGet(b, key) == IF key \in DOMAIN b THEN Some(b[key]) ELSE None

\* the tuple upsert_daily_bars builds for one PriceBarDTO (the columns kept
\* here: close, vwap, adj_close); adj_close falls back to close
BarRecord(b) ==
    [close     |-> b.close,
     vwap      |-> BarGet(b, "vwap"),
     adj_close |-> IF "adj_close" \in DOMAIN b THEN Some(b.adj_close) ELSE Some(b.close)]

\* variant: INSERT OR IGNORE
InsertOrReplaceBar_Ignore(db, k, row) ==
    [x \in DOMAIN db \cup {k} |-> IF x \in DOMAIN db THEN db[x] ELSE row]

\* INSERT OR REPLACE INTO daily_bars of one record
InsertOrReplaceBar(db, k, row) ==
    [x \in DOMAIN db \cup {k} |-> IF x = k THEN row ELSE db[x]]

RECURSIVE UpsertLoop(_, _, _)
\* executemany over the records, in order
UpsertLoop(db, symbol, bars) ==
    IF bars = <<>> THEN db
    ELSE LET b == Head(bars) IN
         UpsertLoop(InsertOrReplaceBar(db, BarKey(symbol, TradeDate(b.time)), BarRecord(b)),
                    symbol, Tail(bars))

\* the table daily_bars after upsert_daily_bars(symbol, bars)
upsert_daily_bars(db, symbol, bars) ==
    IF bars = <<>> THEN db ELSE UpsertLoop(db, Upper(symbol), bars)

\* the value upsert_daily_bars returns
upsert_daily_bars_return(bars) == IF bars = <<>> THEN 0 ELSE Len(bars)

\* the days the vendor has a bar for
TradingDays == {1, 2, 4}

\* the PriceBarDTO the vendor client builds for one day: "time" is the date at
\* midnight; adjusted_close comes for symbol A only
VendorBar(symbol, d) ==
    IF Upper(symbol) = "A"
    THEN [time |-> <<d, 0>>, close |-> d, adj_close |-> d + 1]
    ELSE [time |-> <<d, 0>>, close |-> d]

RECURSIVE fetch_eodhd_daily_ohlcv(_, _, _)
\* the bars of [start, end], inclusive, oldest first
fetch_eodhd_daily_ohlcv(symbol, start, end) ==
    IF start > end THEN <<>>
    ELSE (IF start \in TradingDays THEN <<VendorBar(symbol, start)>> ELSE <<>>)
         \o fetch_eodhd_daily_ohlcv(symbol, start + 1, end)

\* the table daily_bars after an ingest_eodhd_window that the vendor answered
ingest_eodhd_window(db, symbol, start, end) ==
    upsert_daily_bars(db, symbol, fetch_eodhd_daily_ohlcv(symbol, start, end))

\* SELECT COUNT(*) FROM daily_bars WHERE trade_date < ?
archive_count(db, cutoff_date) ==
    Cardinality({k \in DOMAIN db : k.trade_date < cutoff_date})

\* variant: INSERT OR IGNORE INTO daily_bars_archive ...
archive_copy_Ignore(db, arch, cutoff_date) ==
    LET old == {k \in DOMAIN db : k.trade_date < cutoff_date} IN
    [k \in DOMAIN arch \cup old |-> IF k \in DOMAIN arch THEN arch[k] ELSE db[k]]

\* INSERT OR REPLACE INTO daily_bars_archive SELECT * FROM daily_bars WHERE trade_date < ?
archive_copy(db, arch, cutoff_date) ==
    LET old == {k \in DOMAIN db : k.trade_date < cutoff_date} IN
    [k \in DOMAIN arch \cup old |-> IF k \in old THEN db[k] ELSE arch[k]]

\* variant: DELETE ... WHERE trade_date <= ?
archive_delete_Inclusive(db, cutoff_date) ==
    [k \in {x \in DOMAIN db : ~(x.trade_date <= cutoff_date)} |-> db[k]]

\* variant: the DELETE left out
archive_delete_Nothing(db, cutoff_date) == db

\* DELETE FROM daily_bars WHERE trade_date < ?
archive_delete(db, cutoff_date) ==
    [k \in {x \in DOMAIN db : ~(x.trade_date < cutoff_date)} |-> db[k]]

(***************************************************************************)
(* The resumable worker loop and the commands that launch it               *)
(* (start-resumable, resume), with hard kills of the process.              *)
(***************************************************************************)
\* ids create_ingest_job can draw (str(uuid.uuid4()), fresh on every call)
JobIds == {"j1"}

\* the expansions a start-resumable request can come to: the selected symbols
\* and the windows of the requested range
Requests ==
    { [symbols |-> <<"A", "B">>, windows |-> << <<1, 4>> >>] }

\* how the vendor answers for the symbols: always with bars, never, or with
\* an error on the first attempt only
VendorProfiles ==
    { [sym \in {"A", "B"} |-> IF sym = "A" THEN "bad" ELSE "ok"],
      [sym \in {"A", "B"} |-> IF sym = "A" THEN "flaky" ELSE "ok"] }

\* does the fetch-and-upsert of an item succeed on this attempt
VendorOk(v, symbol, attempts) ==
    CASE v[symbol] = "ok" -> TRUE
      [] v[symbol] = "bad" -> FALSE
      [] OTHER -> attempts > 1

\* the Cartesian product S x W as the items list handed to enqueue
RECURSIVE Product(_, _)
Product(symbols, windows) ==
    IF symbols = <<>> THEN <<>>
    ELSE [i \in 1..Len(windows) |-> <<Head(symbols), windows[i][1], windows[i][2]>>]
         \o Product(Tail(symbols), windows)

\* the background tasks the process can hold at a time
WorkerSlots == {"w1", "w2"}

FreeSlots(ws) == WorkerSlots \ DOMAIN ws

NextSlot(ws) == IF "w1" \in FreeSlots(ws) THEN "w1" ELSE "w2"

\* a worker task at the start of the loop
NewWorker(job_id, ws) ==
    [job_id |-> job_id, pc |-> "reset", item |-> None, succeeded |-> 0, failed |-> 0,
     \* has this task been the job's only live worker since it started
     solo |-> \A w \in DOMAIN ws : ws[w].job_id # job_id,
     \* did its reset_stale_running leave no running row behind
     clean |-> FALSE]

\* launching a task for job_id next to the tasks ws
Launch(ws, id, job_id) ==
    [w \in DOMAIN ws \cup {id} |->
        IF w = id THEN NewWorker(job_id, ws)
        ELSE IF ws[w].job_id = job_id
             THEN [ws[w] EXCEPT !.solo = FALSE]
             ELSE ws[w]]

\* start-resumable: create the job, enqueue S x W, schedule the worker
StartResumable ==
    \E job_id \in JobIds \ DOMAIN jobs, req \in Requests :
        /\ FreeSlots(workers) # {}
        /\ jobs' = create_ingest_job(jobs, job_id, now, Len(req.symbols), 0, 0, 0, None)
        /\ queue' = enqueue(queue, job_id, Product(req.symbols, req.windows))
        /\ workers' = Launch(workers, NextSlot(workers), job_id)
        /\ ret' = NoRet
        /\ UNCHANGED <<now, vendor, txns, daily_bars, daily_bars_archive, archiving>>

\* resume: 404 for an unknown job id, else re-launch the worker
Resume ==
    \E job_id \in DOMAIN jobs :
        /\ FreeSlots(workers) # {}
        /\ workers' = Launch(workers, NextSlot(workers), job_id)
        /\ ret' = NoRet
        /\ UNCHANGED <<queue, jobs, now, vendor, txns, daily_bars, daily_bars_archive, archiving>>

\* step 1, crash recovery
WorkerReset(w) ==
    LET me == workers[w]
        q2 == reset_stale_running_to_pending(queue, me.job_id, now, StaleMinutes)
    IN  /\ me.pc = "reset"
        /\ queue' = q2
        /\ workers' = [workers EXCEPT ![w] =
                          [me EXCEPT !.pc = "reconcile",
                                     !.clean = CountState(q2, me.job_id, "running") = 0]]
        /\ ret' = NoRet
        /\ UNCHANGED <<jobs, now, vendor, txns, daily_bars, daily_bars_archive, archiving>>

\* step 2, reconciliation
WorkerReconcile(w) ==
    LET me == workers[w]
        c  == get_counts(queue, me.job_id)
    IN  /\ me.pc = "reconcile"
        /\ jobs' = update_ingest_job_progress(jobs, me.job_id, Some("running"), None,
                       c.succeeded + c.failed, c.succeeded, c.failed, None)
        /\ workers' = [workers EXCEPT ![w] =
                          [me EXCEPT !.pc = "pop", !.succeeded = c.succeeded,
                                     !.failed = c.failed]]
        /\ ret' = NoRet
        /\ UNCHANGED <<queue, now, vendor, txns, daily_bars, daily_bars_archive, archiving>>

\* step 3, drain: pop_next
WorkerPop(w) ==
    LET me == workers[w]
        cands == pop_select(queue, me.job_id, MaxAttempts)
    IN  /\ me.pc = "pop"
        /\ IF cands = {}
           THEN /\ queue' = queue
                /\ ret' = [op |-> "pop_next", job_id |-> me.job_id, val |-> None, again |-> None]
                /\ workers' = [workers EXCEPT ![w] = [me EXCEPT !.pc = "finalize"]]
           ELSE \E k \in cands :
                /\ queue' = pop_update(queue, k, now)
                /\ ret' = [op |-> "pop_next", job_id |-> me.job_id,
                           val |-> Some(pop_item(queue, k)), again |-> None]
                /\ workers' = [workers EXCEPT ![w] =
                                  [me EXCEPT !.pc = "exec", !.item = Some(pop_item(queue, k))]]
        /\ UNCHANGED <<jobs, now, vendor, txns, daily_bars, daily_bars_archive, archiving>>

\* step 3, drain: fetch, upsert, mark the item
WorkerExec(w) ==
    LET me == workers[w]
        it == me.item[1]
    IN  /\ me.pc = "exec"
        /\ IF VendorOk(vendor, it.symbol, it.attempts)
           THEN /\ daily_bars' = ingest_eodhd_window(daily_bars, it.symbol,
                                                     it.window_start, it.window_end)
                /\ queue' = mark_succeeded(queue, me.job_id, it.symbol,
                                           it.window_start, it.window_end)
                /\ workers' = [workers EXCEPT ![w] =
                                  [me EXCEPT !.pc = "progress", !.item = None,
                                             !.succeeded = @ + 1]]
           ELSE \E err \in Errs :
                /\ daily_bars' = daily_bars
                /\ queue' = mark_failed(queue, me.job_id, it.symbol,
                                        it.window_start, it.window_end, err)
                /\ workers' = [workers EXCEPT ![w] =
                                  [me EXCEPT !.pc = "progress", !.item = None,
                                             !.failed = @ + 1]]
        /\ ret' = NoRet
        /\ UNCHANGED <<jobs, now, vendor, txns, daily_bars_archive, archiving>>

\* step 3, drain: update_progress with the running totals
WorkerProgress(w) ==
    LET me == workers[w] IN
        /\ me.pc = "progress"
        /\ jobs' = update_ingest_job_progress(jobs, me.job_id, None, None,
                       me.succeeded + me.failed, me.succeeded, me.failed, None)
        /\ workers' = [workers EXCEPT ![w] = [me EXCEPT !.pc = "pop"]]
        /\ ret' = NoRet
        /\ UNCHANGED <<queue, now, vendor, txns, daily_bars, daily_bars_archive, archiving>>

\* step 4, finalization
WorkerFinalize(w) ==
    LET me == workers[w]
        c  == get_counts(queue, me.job_id)
    IN  /\ me.pc = "finalize"
        /\ IF c.pending > 0 \/ c.running > 0
           THEN jobs' = update_ingest_job_progress(jobs, me.job_id, Some("running"), None,
                            me.succeeded + me.failed, me.succeeded, me.failed,
                            Some("paused with remaining items"))
           ELSE jobs' = update_ingest_job(jobs, me.job_id, now,
                            IF me.failed = 0 THEN "succeeded" ELSE "failed",
                            me.succeeded + me.failed, me.succeeded, me.failed, None)
        \* the task returns
        /\ workers' = [x \in DOMAIN workers \ {w} |-> workers[x]]
        /\ ret' = [op |-> "worker_loop", job_id |-> me.job_id,
                   val |-> Some([solo |-> me.solo, clean |-> me.clean]), again |-> None]
        /\ UNCHANGED <<queue, now, vendor, txns, daily_bars, daily_bars_archive, archiving>>

\* a hard kill of the process: every task is gone, the tables stay
Kill ==
    /\ workers # << >>
    /\ workers' = << >>
    /\ ret' = NoRet
    /\ UNCHANGED <<queue, jobs, now, vendor, txns, daily_bars, daily_bars_archive, archiving>>

InitWorker ==
    /\ InitQueue
    /\ jobs = << >>
    /\ workers = << >>
    /\ vendor \in VendorProfiles

NextWorker ==
    \/ StartResumable
    \/ Resume
    \/ \E w \in DOMAIN workers : WorkerReset(w)
    \/ \E w \in DOMAIN workers : WorkerReconcile(w)
    \/ \E w \in DOMAIN workers : WorkerPop(w)
    \/ \E w \in DOMAIN workers : WorkerExec(w)
    \/ \E w \in DOMAIN workers : WorkerProgress(w)
    \/ \E w \in DOMAIN workers : WorkerFinalize(w)
    \/ Kill
    \/ Tick

SpecWorker == InitWorker /\ [][NextWorker]_vars

(***************************************************************************)
(* pop_next statement by statement, for calls that overlap.  Each call     *)
(* opens its own connection; the engine runs BEGIN ... COMMIT under        *)
(* snapshot isolation with optimistic concurrency control: a transaction   *)
(* reads the rows committed when it started, and an UPDATE of a row that   *)
(* another transaction has written since then (committed or not) raises a  *)
(* conflict error, which pop_next answers with ROLLBACK and re-raise.      *)
(***************************************************************************)
\* con.execute("BEGIN"): SELECT and UPDATE run in one transaction
InTransaction_Autocommit == FALSE

InTransaction == TRUE

\* the rows the UPDATE of caller p is checked against
UpdateBase(p) == IF InTransaction THEN txns[p].snap ELSE queue

\* the engine refuses the UPDATE of row k by caller p
Conflict(p, k) ==
    \/ /\ InTransaction
       /\ \E o \in Callers \ {p} : txns[o].pc = "updated" /\ txns[o].key = Some(k)
    \/ queue[k] # UpdateBase(p)[k]

AllIdle == \A p \in Callers : txns[p].pc = "idle"

PopRest ==
    UNCHANGED <<now, ret, jobs, workers, vendor, daily_bars, daily_bars_archive, archiving>>

\* BEGIN; SELECT ... LIMIT 1; and, if no row came back, COMMIT and return None
PopBegin(p) ==
    \E job_id \in QueueJobs :
        LET cands == pop_select(queue, job_id, MaxAttempts) IN
        /\ txns[p].pc = "idle"
        /\ IF cands = {}
           THEN txns' = [txns EXCEPT ![p] = [pc |-> "returned", job_id |-> job_id,
                                            snap |-> queue, key |-> None, val |-> None]]
           ELSE \E k \in cands :
                txns' = [txns EXCEPT ![p] = [pc |-> "selected", job_id |-> job_id,
                                            snap |-> queue, key |-> Some(k), val |-> None]]
        /\ UNCHANGED queue
        /\ PopRest

\* UPDATE ... SET state = 'running', attempts = <fetched attempts> + 1;
\* on a conflict: ROLLBACK and raise
PopUpdate(p) ==
    LET k == txns[p].key[1] IN
    /\ txns[p].pc = "selected"
    /\ IF Conflict(p, k)
       THEN /\ txns' = [txns EXCEPT ![p].pc = "raised"]
            /\ UNCHANGED queue
       ELSE /\ txns' = [txns EXCEPT ![p].pc = "updated"]
            /\ queue' = IF InTransaction THEN queue
                        ELSE [queue EXCEPT ![k] = pop_update(txns[p].snap, k, now)[k]]
    /\ PopRest

\* COMMIT and return the item
PopCommit(p) ==
    LET k == txns[p].key[1] IN
    /\ txns[p].pc = "updated"
    /\ queue' = IF InTransaction
                THEN [queue EXCEPT ![k] = pop_update(txns[p].snap, k, now)[k]]
                ELSE queue
    /\ txns' = [txns EXCEPT ![p].pc = "returned",
                            ![p].val = Some(pop_item(txns[p].snap, k))]
    /\ PopRest

\* the caller has taken the result (or the exception) and may call again
PopDone(p) ==
    /\ txns[p].pc \in {"returned", "raised"}
    /\ txns' = [txns EXCEPT ![p] = IdleTxn]
    /\ UNCHANGED queue
    /\ PopRest

\* the other queue calls, made while no pop_next is in flight
QuietEnqueue == AllIdle /\ Cardinality(DOMAIN queue) < 2 /\ Enqueue
QuietMarkSucceeded == AllIdle /\ MarkSucceeded
QuietMarkFailed == AllIdle /\ MarkFailed

NextPop ==
    \/ QuietEnqueue
    \/ QuietMarkSucceeded
    \/ QuietMarkFailed
    \/ \E p \in Callers : PopBegin(p)
    \/ \E p \in Callers : PopUpdate(p)
    \/ \E p \in Callers : PopCommit(p)
    \/ \E p \in Callers : PopDone(p)

SpecPop == Init /\ [][NextPop]_vars

(***************************************************************************)
(* One job from creation on, with one worker at a time: the job is created *)
(* by start-resumable and drained by the worker loop, or it is run by one  *)
(* of the handlers of routes/datalake_eodhd.py that ingest without the     *)
(* queue.                                                                  *)
(***************************************************************************)
\* resume of a resumable job that has no live worker; the task keeps, for
\* the record, what the job, its queue and the bar table were when it started
ResumeIdle ==
    \E job_id \in DOMAIN jobs :
        /\ RowsOf(queue, job_id) # {}
        /\ \A w \in DOMAIN workers : workers[w].job_id # job_id
        /\ FreeSlots(workers) # {}
        /\ workers' = [Launch(workers, NextSlot(workers), job_id)
                          EXCEPT ![NextSlot(workers)] =
                              @ @@ [resumed |-> [job |-> jobs[job_id], queue |-> queue,
                                                 daily_bars |-> daily_bars]]]
        /\ ret' = NoRet
        /\ UNCHANGED <<queue, jobs, now, vendor, txns, daily_bars, daily_bars_archive, archiving>>

\* date.today()
Today == 4

RECURSIVE build_windows_NoClamp(_, _, _)
\* variant: the last window is not cut at the end of the range
build_windows_NoClamp(cur, end, window_days) ==
    IF ~(cur <= end) THEN <<>>
    ELSE LET window_end == cur + (window_days - 1)
         IN  << <<cur, window_end>> >> \o build_windows_NoClamp(window_end + 1, end, window_days)

RECURSIVE build_windows(_, _, _)
\* while cur <= end: window_end = min(cur + window_days - 1, end);
\*                    windows.append((cur, window_end)); cur = window_end + 1
build_windows(cur, end, window_days) ==
    IF ~(cur <= end) THEN <<>>
    ELSE LET window_end == IF cur + (window_days - 1) > end THEN end
                           ELSE cur + (window_days - 1)
         IN  << <<cur, window_end>> >> \o build_windows(window_end + 1, end, window_days)

\* _clamp_dates raises ValueError: start in the future, or end before start
ClampRaises(start, end) ==
    \/ start > Today
    \/ (IF end > Today THEN Today ELSE end) < start

\* how the vendor client answers for a window: every fetch of a window that
\* _clamp_dates refuses raises
Answers(v, start, end) ==
    IF ClampRaises(start, end) THEN [sym \in DOMAIN v |-> "bad"] ELSE v

\* a request as a handler receives it: the payload and what
\* _select_universe_symbols returns for its filters
Request(start, end, window_days, symbols) ==
    [start |-> start, end |-> end, window_days |-> window_days, symbols |-> symbols]

\* raise HTTPException(status_code=400, ...)
Rejected == Some([status_code |-> 400])

Max(a, b) == IF a >= b THEN a ELSE b

RECURSIVE IngestLoop(_, _, _, _)
\* variant: the except branch does not count the failure
IngestLoop_DropsFailures(symbols, v, succeeded, failed) ==
    IF symbols = <<>> THEN [succeeded |-> succeeded, failed |-> failed]
    ELSE IF VendorOk(v, Head(symbols), 1)
         THEN IngestLoop(Tail(symbols), v, succeeded + 1, failed)
         ELSE IngestLoop(Tail(symbols), v, succeeded, failed)

\* for sym in symbols: try: ingest_eodhd_window(...); succeeded += 1
\*                     except Exception: failed += 1
IngestLoop(symbols, v, succeeded, failed) ==
    IF symbols = <<>> THEN [succeeded |-> succeeded, failed |-> failed]
    ELSE IF VendorOk(v, Head(symbols), 1)
         THEN IngestLoop(Tail(symbols), v, succeeded + 1, failed)
         ELSE IngestLoop(Tail(symbols), v, succeeded, failed + 1)

RECURSIVE IngestBars(_, _, _, _, _)
\* the table daily_bars after the same loop: ingest_eodhd_window writes the
\* bars of every symbol the vendor answers for
IngestBars(db, symbols, v, start, end) ==
    IF symbols = <<>> THEN db
    ELSE IngestBars(IF VendorOk(v, Head(symbols), 1)
                    THEN ingest_eodhd_window(db, Head(symbols), start, end)
                    ELSE db,
                    Tail(symbols), v, start, end)

\* the requests to /datalake/eodhd/ingest-window: start, end and the universe
\* the filters select
WindowRequests ==
    { Request(1, 4, None, <<"A", "B">>),
      Request(3, 4, None, <<"A">>),
      Request(4, 3, None, <<"A">>),
      Request(1, 4, None, <<>>) }

\* the requests to /datalake/eodhd/ingest-full-history: start and the
\* universe; the end is date.today()
TodayRequests ==
    { Request(1, Today, None, <<"A", "B">>),
      Request(3, Today, None, <<"A">>),
      Request(5, Today, None, <<"A">>),
      Request(1, Today, None, <<>>) }

\* the requests to the two /datalake/eodhd/full-history handlers
FullHistoryRequests ==
    { Request(1, 4, Some(3), <<"A", "B">>),
      Request(1, 4, Some(2), <<"A">>),
      Request(1, 4, Some(3), <<>>),
      Request(4, 3, Some(3), <<"A">>),
      Request(1, 4, Some(0), <<"A">>) }

\* The body shared by ingest_eodhd_for_universe and
\* ingest_eodhd_full_history_route, from create_ingest_job on.  ok1 and ok2
\* tell whether the job store takes the first update_ingest_job and the one
\* of the except branch.
ingest_route(js, job_id, t, symbols, v, ok1, ok2) ==
    LET universe_count == Len(symbols)
        js1 == create_ingest_job(js, job_id, t, universe_count, 0, 0, 0, None)
        r   == IngestLoop(symbols, v, 0, 0)
    IN  IF ok1
        THEN update_ingest_job(js1, job_id, t,
                 IF r.failed = 0 THEN "succeeded" ELSE "failed",
                 universe_count, r.succeeded, r.failed,
                 IF r.failed = 0 THEN None ELSE Some("Some symbols failed during ingest."))
        ELSE IF ok2
        THEN update_ingest_job(js1, job_id, t, "failed",
                 universe_count, r.succeeded,
                 Max(universe_count - r.succeeded, r.failed), Some("store error"))
        ELSE js1

\* the response of the two handlers; None when the handler re-raises
ingest_route_response(symbols, v, ok1) ==
    LET r == IngestLoop(symbols, v, 0, 0) IN
    IF ok1
    THEN Some([symbols_attempted |-> Len(symbols), symbols_succeeded |-> r.succeeded,
               symbols_failed |-> r.failed,
               job_state |-> IF r.failed = 0 THEN "succeeded" ELSE "failed"])
    ELSE None

\* POST /datalake/eodhd/ingest-window; an empty universe is answered with 400
\* before a job is created
IngestForUniverse ==
    \E req \in WindowRequests :
        LET symbols == req.symbols
            v       == Answers(vendor, req.start, req.end)
        IN  IF Len(symbols) = 0
            THEN /\ ret' = [op |-> "ingest_window", job_id |-> "", val |-> Rejected,
                            again |-> None, req |-> req]
                 /\ UNCHANGED <<queue, now, jobs, workers, vendor, txns,
                                daily_bars, daily_bars_archive, archiving>>
            ELSE \E job_id \in JobIds \ DOMAIN jobs, ok1 \in BOOLEAN, ok2 \in BOOLEAN :
                 /\ jobs' = ingest_route(jobs, job_id, now, symbols, v, ok1, ok2)
                 /\ daily_bars' = IngestBars(daily_bars, symbols, v, req.start, req.end)
                 /\ ret' = [op |-> "ingest_window", job_id |-> job_id,
                            val |-> ingest_route_response(symbols, v, ok1),
                            again |-> None, req |-> req]
                 /\ UNCHANGED <<queue, now, workers, vendor, txns,
                                daily_bars_archive, archiving>>

\* POST /datalake/eodhd/ingest-full-history: from body.start to date.today()
IngestFullHistoryRoute ==
    \E req \in TodayRequests :
        LET symbols == req.symbols
            v       == Answers(vendor, req.start, req.end)
        IN  IF Len(symbols) = 0
            THEN /\ ret' = [op |-> "ingest_full_history", job_id |-> "", val |-> Rejected,
                            again |-> None, req |-> req]
                 /\ UNCHANGED <<queue, now, jobs, workers, vendor, txns,
                                daily_bars, daily_bars_archive, archiving>>
            ELSE \E job_id \in JobIds \ DOMAIN jobs, ok1 \in BOOLEAN, ok2 \in BOOLEAN :
                 /\ jobs' = ingest_route(jobs, job_id, now, symbols, v, ok1, ok2)
                 /\ daily_bars' = IngestBars(daily_bars, symbols, v, req.start, req.end)
                 /\ ret' = [op |-> "ingest_full_history", job_id |-> job_id,
                            val |-> ingest_route_response(symbols, v, ok1),
                            again |-> None, req |-> req]
                 /\ UNCHANGED <<queue, now, workers, vendor, txns,
                                daily_bars_archive, archiving>>

\* the keyword parameters of update_ingest_job
UpdateIngestJobKeywords ==
    {"state", "symbols_attempted", "symbols_succeeded", "symbols_failed", "last_error"}

\* the keywords _run_full_history_ingest passes to update_ingest_job
FullHistoryKeywords == UpdateIngestJobKeywords \cup {"universe_symbols_considered"}

\* variant: the call is accepted whatever keywords it passes
RaisesTypeError_Never(keywords) == FALSE

\* a call with a keyword the function does not declare raises TypeError
RaisesTypeError(keywords) == ~(keywords \subseteq UpdateIngestJobKeywords)

\* update_ingest_job as _run_full_history_ingest calls it
full_history_update(js, job_id, t, state, attempted, succeeded, failed, last_error) ==
    IF RaisesTypeError(FullHistoryKeywords)
    THEN [raised |-> TRUE, jobs |-> js]
    ELSE [raised |-> FALSE,
          jobs |-> update_ingest_job(js, job_id, t, state, attempted, succeeded,
                                     failed, last_error)]

\* _run_full_history_ingest: the try block, and the except branch for
\* whatever the try block raises
run_full_history_ingest(js, job_id, t, symbols, windows, v) ==
    LET crashed == full_history_update(js, job_id, t, "failed", 0, 0, 0,
                                       Some("Background full-history ingest crashed")).jobs
        empty   == full_history_update(js, job_id, t, "failed", 0, 0, 0,
                                       Some("No symbols matched from symbol_universe"))
        running == full_history_update(js, job_id, t, "running", 0, 0, 0, None)
        items   == Product(symbols, windows)
        r       == IngestLoop([i \in 1..Len(items) |-> items[i][1]], v, 0, 0)
        final   == full_history_update(running.jobs, job_id, t, "succeeded",
                                       Len(items), r.succeeded, r.failed, None)
    IN  IF symbols = <<>>
        THEN IF empty.raised THEN crashed ELSE empty.jobs
        ELSE IF running.raised THEN crashed
        ELSE IF final.raised THEN crashed
        ELSE final.jobs

RECURSIVE FullHistoryBars(_, _, _)
\* the nested loop of _run_full_history_ingest: for each symbol x window
FullHistoryBars(db, items, v) ==
    IF items = <<>> THEN db
    ELSE LET it == Head(items) IN
         FullHistoryBars(IF VendorOk(v, it[1], 1)
                         THEN ingest_eodhd_window(db, it[1], it[2], it[3])
                         ELSE db,
                         Tail(items), v)

\* the table daily_bars after _run_full_history_ingest: the nested loop is
\* reached only when the update to state running before it does not raise
run_full_history_bars(db, js, job_id, t, symbols, windows, v) ==
    IF symbols = <<>> \/ full_history_update(js, job_id, t, "running", 0, 0, 0, None).raised
    THEN db
    ELSE FullHistoryBars(db, Product(symbols, windows), v)

\* POST /datalake/eodhd/full-history/ingest: validates the range, window_days
\* and the universe, then ingests every symbol x window; keeps no job record
IngestFullHistory ==
    \E req \in FullHistoryRequests :
        LET symbols == req.symbols IN
        /\ IF req.start > req.end \/ req.window_days[1] <= 0 \/ Len(symbols) = 0
           THEN /\ ret' = [op |-> "full_history_ingest", job_id |-> "", val |-> Rejected,
                           again |-> None, req |-> req]
                /\ UNCHANGED daily_bars
           ELSE LET windows == build_windows(req.start, req.end, req.window_days[1]) IN
                /\ daily_bars' = FullHistoryBars(daily_bars, Product(symbols, windows),
                                                 vendor)
                /\ ret' = [op |-> "full_history_ingest", job_id |-> "",
                           val |-> Some([num_windows |-> Len(windows)]),
                           again |-> None, req |-> req]
        /\ UNCHANGED <<queue, now, jobs, workers, vendor, txns, daily_bars_archive, archiving>>

\* POST /datalake/eodhd/full-history/start: validate the range and
\* window_days, create the job row, schedule _run_full_history_ingest in the
\* background with the payload
StartFullHistory ==
    \E req \in FullHistoryRequests :
        IF req.start > req.end \/ req.window_days[1] <= 0
        THEN /\ ret' = [op |-> "start_full_history", job_id |-> "", val |-> Rejected,
                        again |-> None, req |-> req]
             /\ UNCHANGED <<queue, now, jobs, workers, vendor, txns,
                            daily_bars, daily_bars_archive, archiving>>
        ELSE \E job_id \in JobIds \ DOMAIN jobs :
             /\ FreeSlots(workers) # {}
             /\ jobs' = create_ingest_job(jobs, job_id, now, 0, 0, 0, 0, None)
             /\ workers' = [w \in DOMAIN workers \cup {NextSlot(workers)} |->
                               IF w \in DOMAIN workers THEN workers[w]
                               ELSE [job_id |-> job_id, pc |-> "full_history",
                                     payload |-> req]]
             /\ ret' = [op |-> "start_full_history", job_id |-> job_id,
                        val |-> Some([job_id |-> job_id]), again |-> None, req |-> req]
             /\ UNCHANGED <<queue, now, vendor, txns,
                            daily_bars, daily_bars_archive, archiving>>

\* the background task _run_full_history_ingest, start to end
RunFullHistoryIngest(w) ==
    /\ workers[w].pc = "full_history"
    /\ LET payload == workers[w].payload
           symbols == payload.symbols
           windows == build_windows(payload.start, payload.end, payload.window_days[1])
       IN  /\ jobs' = run_full_history_ingest(jobs, workers[w].job_id, now, symbols,
                                              windows, vendor)
           /\ daily_bars' = run_full_history_bars(daily_bars, jobs, workers[w].job_id, now,
                                                  symbols, windows, vendor)
    /\ workers' = [x \in DOMAIN workers \ {w} |-> workers[x]]
    /\ ret' = [op |-> "run_full_history_ingest", job_id |-> workers[w].job_id,
               val |-> None, again |-> None]
    /\ UNCHANGED <<queue, now, vendor, txns, daily_bars_archive, archiving>>

NextJob ==
    \/ StartResumable
    \/ ResumeIdle
    \/ \E w \in DOMAIN workers : WorkerReset(w)
    \/ \E w \in DOMAIN workers : WorkerReconcile(w)
    \/ \E w \in DOMAIN workers : WorkerPop(w)
    \/ \E w \in DOMAIN workers : WorkerExec(w)
    \/ \E w \in DOMAIN workers : WorkerProgress(w)
    \/ \E w \in DOMAIN workers : WorkerFinalize(w)
    \/ Kill
    \/ Tick
    \/ IngestForUniverse
    \/ IngestFullHistoryRoute
    \/ IngestFullHistory
    \/ StartFullHistory
    \/ \E w \in DOMAIN workers : RunFullHistoryIngest(w)

SpecJob == InitWorker /\ [][NextJob]_vars

(***************************************************************************)
(* The read side: progress of a job and the latest job, next to the        *)
(* handlers that create jobs without the queue.                            *)
(***************************************************************************)
\* table eodhd_ingest_job_items: create_job_items and set_item_state have no
\* caller, so the table stays as _ensure_schema creates it
job_items == << >>

\* job ids a client may ask about
AskedJobIds == JobIds \cup {"j9"}

\* raise HTTPException(status_code=404, ...)
NotFound == Some([status_code |-> 404])

\* SELECT COUNT(*), SUM(CASE WHEN state = ... THEN 1 ELSE 0 END) ... FROM
\* eodhd_ingest_job_items WHERE job_id = ?; int(x or 0) for each column
ItemCount(items, job_id, state) ==
    Cardinality({k \in DOMAIN items : k.job_id = job_id /\ items[k].state = state})

\* get_ingest_job: the row with this id, or None
get_ingest_job(js, job_id) == IF job_id \in DOMAIN js THEN Some(js[job_id]) ELSE None

\* the dict get_job_progress returns; pct_complete as the fraction
\* (done * 100) / total
get_job_progress(js, items, job_id) ==
    LET total     == Cardinality({k \in DOMAIN items : k.job_id = job_id})
        succeeded == ItemCount(items, job_id, "succeeded")
        failed    == ItemCount(items, job_id, "failed")
        done      == succeeded + failed
        job       == get_ingest_job(js, job_id)
    IN  [job_id    |-> job_id,
         state     |-> IF job # None THEN job[1].state ELSE "unknown",
         total     |-> total,
         pending   |-> ItemCount(items, job_id, "pending"),
         running   |-> ItemCount(items, job_id, "running"),
         succeeded |-> succeeded,
         failed    |-> failed,
         pct_complete |-> IF total > 0 THEN <<done * 100, total>> ELSE <<0, 1>>]

\* get_latest_ingest_job: ORDER BY created_at DESC LIMIT 1, or None
get_latest_ingest_job(js) ==
    IF DOMAIN js = {} THEN None
    ELSE LET id == CHOOSE x \in DOMAIN js :
                       \A y \in DOMAIN js : js[y].created_at <= js[x].created_at
         IN  Some(js[id])

ReadRest ==
    UNCHANGED <<queue, now, jobs, workers, vendor, txns,
                daily_bars, daily_bars_archive, archiving>>

\* a progress query for a job id
GetJobProgress ==
    \E job_id \in AskedJobIds :
        /\ ret' = [op |-> "get_job_progress", job_id |-> job_id,
                   val |-> Some(get_job_progress(jobs, job_items, job_id)), again |-> None]
        /\ ReadRest

\* GET /datalake/eodhd/jobs/latest: 404 when the job table is empty
GetLatestEodhdJob ==
    /\ ret' = [op |-> "get_latest_eodhd_job", job_id |-> "",
               val |-> IF get_latest_ingest_job(jobs) = None THEN NotFound
                       ELSE get_latest_ingest_job(jobs),
               again |-> None]
    /\ ReadRest

NextRead ==
    \/ IngestForUniverse
    \/ IngestFullHistoryRoute
    \/ IngestFullHistory
    \/ StartFullHistory
    \/ \E w \in DOMAIN workers : RunFullHistoryIngest(w)
    \/ GetJobProgress
    \/ GetLatestEodhdJob

SpecRead == InitWorker /\ [][NextRead]_vars

(***************************************************************************)
(* Window partitioning on its own: a range and a window length come in,    *)
(* the list of windows goes out.                                           *)
(***************************************************************************)
\* the last day a range may reach
MaxDay == 7
\* the largest window_days of a request
MaxWindowDays == 4

\* a payload that passed the checks start <= end and window_days > 0
InitWindows ==
    /\ queue = << >>
    /\ now = 0
    /\ txns = [p \in Callers |-> IdleTxn]
    /\ daily_bars = << >>
    /\ daily_bars_archive = << >>
    /\ archiving = None
    /\ jobs = << >>
    /\ workers = << >>
    /\ vendor = [sym \in {"A", "B"} |-> "ok"]
    /\ \E start \in 1..MaxDay, end \in 1..MaxDay, window_days \in 1..MaxWindowDays :
          /\ start <= end
          /\ ret = [op |-> "payload", job_id |-> "", val |-> None, again |-> None,
                    req |-> Request(start, end, Some(window_days), <<>>)]

\* 2) Build windows [start, end] in chunks of window_days
BuildWindows ==
    /\ ret.op = "payload"
    /\ ret' = [ret EXCEPT !.op = "build_windows",
                          !.val = Some(build_windows(ret.req.start, ret.req.end,
                                                     ret.req.window_days[1]))]
    /\ ReadRest

NextWindows == BuildWindows

SpecWindows == InitWindows /\ [][NextWindows]_vars

(***************************************************************************)
(* The bar store under arbitrary calls: upserts (ingest and re-ingest of   *)
(* any window) and archive_old_daily_bars, whose COUNT runs before its     *)
(* transaction begins, so that an upsert can fall between the two.         *)
(***************************************************************************)
\* symbols as callers pass them to upsert_daily_bars
BarSymbols == {"a", "A"}

Bar(d, hour, close) == [time |-> <<d, hour>>, close |-> close]

\* the bars lists handed to upsert_daily_bars
BarLists ==
    { <<>>,
      << Bar(1, 0, 10) >>,
      << Bar(1, 0, 11), Bar(2, 0, 20) >>,
      << [time |-> <<2, 0>>, close |-> 21, adj_close |-> 19], Bar(3, 0, 30) >>,
      << [time |-> <<3, 9>>, close |-> 31, vwap |-> 5] >> }

\* cutoff_date of an archive call
Cutoffs == {2, 3}

UpsertDailyBars ==
    \E symbol \in BarSymbols, bars \in BarLists :
        /\ daily_bars' = upsert_daily_bars(daily_bars, symbol, bars)
        /\ ret' = [op |-> "upsert_daily_bars", job_id |-> "",
                   val |-> Some(upsert_daily_bars_return(bars)), again |-> None,
                   req |-> [symbol |-> symbol, bars |-> bars]]
        /\ UNCHANGED <<queue, now, jobs, workers, vendor, txns, daily_bars_archive, archiving>>

\* what the call before returned, if it was an archive call with this cutoff
PreviousArchive(cutoff_date) ==
    IF ret.op = "archive_old_daily_bars" /\ ret.req.cutoff_date = cutoff_date
    THEN ret.val ELSE None

\* archive_old_daily_bars up to BEGIN: count the rows to move; nothing to
\* move returns at once
ArchiveBegin ==
    \E cutoff_date \in Cutoffs :
        LET to_move == archive_count(daily_bars, cutoff_date) IN
        /\ archiving = None
        /\ IF to_move = 0
           THEN /\ ret' = [op |-> "archive_old_daily_bars", job_id |-> "",
                           val |-> Some([archived |-> 0, deleted_from_hot |-> 0]),
                           again |-> None,
                           prev |-> PreviousArchive(cutoff_date),
                           req |-> [cutoff_date |-> cutoff_date]]
                /\ UNCHANGED archiving
           ELSE /\ archiving' = Some([cutoff_date |-> cutoff_date, to_move |-> to_move])
                /\ UNCHANGED ret
        /\ UNCHANGED <<queue, now, jobs, workers, vendor, txns, daily_bars, daily_bars_archive>>

\* BEGIN; copy to archive; delete from hot; COMMIT; return the count
ArchiveMove ==
    /\ archiving # None
    /\ LET cutoff_date == archiving[1].cutoff_date
           to_move     == archiving[1].to_move
       IN  /\ daily_bars_archive' = archive_copy(daily_bars, daily_bars_archive, cutoff_date)
           /\ daily_bars' = archive_delete(daily_bars, cutoff_date)
           /\ ret' = [op |-> "archive_old_daily_bars", job_id |-> "",
                      val |-> Some([archived |-> to_move, deleted_from_hot |-> to_move]),
                      again |-> None,
                           prev |-> PreviousArchive(cutoff_date),
                      req |-> [cutoff_date |-> cutoff_date]]
    /\ archiving' = None
    /\ UNCHANGED <<queue, now, jobs, workers, vendor, txns>>

\* a statement of the transaction raises: ROLLBACK and re-raise
ArchiveRollback ==
    /\ archiving # None
    /\ ret' = [op |-> "archive_old_daily_bars", job_id |-> "", val |-> None,
               again |-> None, req |-> [cutoff_date |-> archiving[1].cutoff_date]]
    /\ archiving' = None
    /\ UNCHANGED <<queue, now, jobs, workers, vendor, txns, daily_bars, daily_bars_archive>>

NextBars ==
    \/ UpsertDailyBars
    \/ ArchiveBegin
    \/ ArchiveMove
    \/ ArchiveRollback

SpecBars == Init /\ [][NextBars]_vars

(***************************************************************************)
(* The universe selection of the ingest routes (_select_universe_symbols). *)
(***************************************************************************)
UniverseSymbols == {"A", "B", "C"}

\* a row of symbol_universe; every column but the key is nullable
UniverseRow(exchange, market_cap, is_etf, is_fund, is_actively_trading) ==
    [exchange |-> exchange, market_cap |-> market_cap, is_etf |-> is_etf,
     is_fund |-> is_fund, is_actively_trading |-> is_actively_trading]

UniverseRows ==
    { UniverseRow(Some("NYSE"), Some(2), Some(FALSE), Some(FALSE), Some(TRUE)),
      UniverseRow(Some("NYSE"), Some(1), Some(FALSE), None, Some(TRUE)),
      UniverseRow(Some("NASDAQ"), Some(2), Some(TRUE), Some(FALSE), Some(TRUE)),
      UniverseRow(Some("NYSE"), None, Some(FALSE), Some(FALSE), Some(TRUE)),
      UniverseRow(Some("NYSE"), Some(2), None, Some(TRUE), Some(TRUE)),
      UniverseRow(Some("NASDAQ"), Some(1), Some(FALSE), Some(FALSE), None) }

\* the table symbol_universe: symbol (primary key) -> row
UniverseTables == [UniverseSymbols -> UniverseRows]

\* the filters of a request
UniverseFilters ==
    { [min_market_cap |-> 1, max_market_cap |-> None, exchanges |-> <<"nyse", "NASDAQ">>,
       include_etfs |-> FALSE, active_only |-> TRUE, max_symbols |-> 2],
      [min_market_cap |-> 1, max_market_cap |-> None, exchanges |-> <<>>,
       include_etfs |-> TRUE, active_only |-> FALSE, max_symbols |-> 3],
      [min_market_cap |-> 2, max_market_cap |-> Some(2), exchanges |-> <<"NYSE">>,
       include_etfs |-> FALSE, active_only |-> TRUE, max_symbols |-> 1],
      [min_market_cap |-> 1, max_market_cap |-> Some(1), exchanges |-> <<>>,
       include_etfs |-> TRUE, active_only |-> FALSE, max_symbols |-> 2],
      [min_market_cap |-> 1, max_market_cap |-> None, exchanges |-> <<>>,
       include_etfs |-> TRUE, active_only |-> FALSE, max_symbols |-> 1] }

\* the WHERE clause; a comparison with NULL does not hold
UniverseWhere(row, f) ==
    /\ f.exchanges # <<>> =>
          /\ row.exchange # None
          /\ \E i \in 1..Len(f.exchanges) : row.exchange[1] = Upper(f.exchanges[i])
    /\ row.is_fund = None \/ row.is_fund = Some(FALSE)
    /\ row.market_cap # None
    /\ row.market_cap[1] >= f.min_market_cap
    /\ f.max_market_cap # None => row.market_cap[1] <= f.max_market_cap[1]
    /\ ~f.include_etfs => (row.is_etf = None \/ row.is_etf = Some(FALSE))
    /\ f.active_only => row.is_actively_trading = Some(TRUE)

\* the orders ORDER BY market_cap DESC allows for a set of rows: rows of
\* equal market_cap come in any order
UniverseOrders(table, matched) ==
    {p \in [1..Cardinality(matched) -> matched] :
        /\ \A i, j \in DOMAIN p : i # j => p[i] # p[j]
        /\ \A i, j \in DOMAIN p :
              i < j => table[p[i]].market_cap[1] >= table[p[j]].market_cap[1]}

\* the lists _select_universe_symbols can return: no table, no symbols;
\* else the first max_symbols rows of the filtered table in the query's order
select_universe_symbols(table, f) ==
    IF table = None THEN { <<>> }
    ELSE LET matched == {s \in DOMAIN table[1] : UniverseWhere(table[1][s], f)}
             limit   == IF f.max_symbols < Cardinality(matched)
                        THEN f.max_symbols ELSE Cardinality(matched)
         IN  {SubSeq(p, 1, limit) : p \in UniverseOrders(table[1], matched)}

\* a request's filters and the table they are put to
InitUniverse ==
    /\ queue = << >>
    /\ now = 0
    /\ txns = [p \in Callers |-> IdleTxn]
    /\ daily_bars = << >>
    /\ daily_bars_archive = << >>
    /\ archiving = None
    /\ jobs = << >>
    /\ workers = << >>
    /\ vendor = [sym \in {"A", "B"} |-> "ok"]
    /\ \E table \in {None} \cup {Some(t) : t \in UniverseTables}, f \in UniverseFilters :
          ret = [op |-> "filters", job_id |-> "", val |-> None, again |-> None,
                 req |-> [table |-> table, filters |-> f]]

SelectUniverseSymbols ==
    /\ ret.op = "filters"
    /\ \E symbols \in select_universe_symbols(ret.req.table, ret.req.filters) :
          ret' = [ret EXCEPT !.op = "select_universe_symbols", !.val = Some(symbols)]
    /\ ReadRest

NextUniverse == SelectUniverseSymbols

SpecUniverse == InitUniverse /\ [][NextUniverse]_vars

(***************************************************************************)
(* The queue store under calls for two job ids.                            *)
(***************************************************************************)
IsoJobs == {"j1", "j2"}

\* the items lists enqueued for a job; both jobs can hold the item (A, 1, 2)
IsoItemLists(job_id) ==
    IF job_id = "j1"
    THEN { << <<"A", 1, 2>>, <<"B", 1, 2>> >> }
    ELSE { << <<"A", 1, 2>> >> }

IsoRet(op, job_id, val) == [op |-> op, job_id |-> job_id, val |-> val, again |-> None]

IsoEnqueue ==
    \E job_id \in IsoJobs : \E items \in IsoItemLists(job_id) :
        /\ RowsOf(queue, job_id) = {}
        /\ queue' = enqueue(queue, job_id, items)
        /\ ret' = IsoRet("enqueue", job_id, Some(enqueue_return(queue, job_id, items)))
        /\ UNCHANGED now
        /\ IdleRest

IsoResetStale ==
    \E job_id \in IsoJobs :
        /\ queue' = reset_stale_running_to_pending(queue, job_id, now, StaleMinutes)
        /\ ret' = IsoRet("reset_stale_running_to_pending", job_id, Some(0))
        /\ UNCHANGED now
        /\ IdleRest

IsoPopNext ==
    \E job_id \in IsoJobs :
        LET cands == pop_select(queue, job_id, MaxAttempts) IN
        /\ IF cands = {}
           THEN /\ queue' = queue
                /\ ret' = IsoRet("pop_next", job_id, None)
           ELSE \E k \in cands :
                /\ queue' = pop_update(queue, k, now)
                /\ ret' = IsoRet("pop_next", job_id, Some(pop_item(queue, k)))
        /\ UNCHANGED now
        /\ IdleRest

IsoMarkSucceeded ==
    \E job_id \in IsoJobs, symbol \in {"a", "B"} :
        /\ queue' = mark_succeeded(queue, job_id, symbol, 1, 2)
        /\ ret' = IsoRet("mark_succeeded", job_id, None)
        /\ UNCHANGED now
        /\ IdleRest

IsoMarkFailed ==
    \E job_id \in IsoJobs, symbol \in {"a", "B"}, err \in Errs :
        /\ queue' = mark_failed(queue, job_id, symbol, 1, 2, err)
        /\ ret' = IsoRet("mark_failed", job_id, None)
        /\ UNCHANGED now
        /\ IdleRest

IsoGetCounts ==
    \E job_id \in IsoJobs :
        /\ ret' = IsoRet("get_counts", job_id, Some(get_counts(queue, job_id)))
        /\ UNCHANGED <<queue, now>>
        /\ IdleRest

NextIso ==
    \/ IsoEnqueue
    \/ IsoResetStale
    \/ IsoPopNext
    \/ IsoMarkSucceeded
    \/ IsoMarkFailed
    \/ IsoGetCounts
    \/ Tick

SpecIso == Init /\ [][NextIso]_vars

(***************************************************************************)
(* The drain loop on its own: pop_next, then mark the popped item, from    *)
(* any state the queue of a job can be in.                                 *)
(***************************************************************************)
\* the rows a queue item can be: never dispatched rows have no
\* last_attempt_at, running rows were dispatched, failed rows carry an error
DrainRows ==
    { [state |-> s, attempts |-> a,
       last_attempt_at |-> IF a > 0 THEN Some(0) ELSE None,
       last_error |-> IF s = "failed" THEN Some(<<"e", "r", "r">>) ELSE None] :
      s \in {"pending", "running", "succeeded", "failed"}, a \in 0..MaxAttempts }
    \ { [state |-> "running", attempts |-> 0, last_attempt_at |-> None,
         last_error |-> None] }

\* the queue of job j1: one or two items
DrainQueues ==
    UNION { [keys -> DrainRows] :
            keys \in { {Key("j1", "A", 1, 2)},
                       {Key("j1", "A", 1, 2), Key("j1", "B", 1, 2)} } }

InitDrain ==
    /\ queue \in DrainQueues
    /\ now = 0
    /\ ret = NoRet
    /\ txns = [p \in Callers |-> IdleTxn]
    /\ daily_bars = << >>
    /\ daily_bars_archive = << >>
    /\ archiving = None
    /\ jobs = << >>
    /\ vendor = [sym \in {"A", "B"} |-> "ok"]
    /\ workers = [w \in {"w1"} |-> [job_id |-> "j1", pc |-> "pop", item |-> None, pops |-> 0]]

\* item = pop_next(job_id, max_attempts); if item is None: break
DrainPop(w) ==
    LET me == workers[w]
        cands == pop_select(queue, me.job_id, MaxAttempts)
    IN  /\ me.pc = "pop"
        /\ IF cands = {}
           THEN /\ queue' = queue
                /\ ret' = [op |-> "pop_next", job_id |-> me.job_id, val |-> None, again |-> None]
                /\ workers' = [workers EXCEPT ![w] = [me EXCEPT !.pc = "done"]]
           ELSE \E k \in cands :
                /\ queue' = pop_update(queue, k, now)
                /\ ret' = [op |-> "pop_next", job_id |-> me.job_id,
                           val |-> Some(pop_item(queue, k)), again |-> None]
                /\ workers' = [workers EXCEPT ![w] =
                                  [me EXCEPT !.pc = "mark", !.item = Some(pop_item(queue, k)),
                                             !.pops = @ + 1]]
        /\ UNCHANGED <<jobs, now, vendor, txns, daily_bars, daily_bars_archive, archiving>>

\* the popped item ends succeeded or failed, whatever the vendor does
DrainMark(w) ==
    LET me == workers[w]
        it == me.item[1]
    IN  /\ me.pc = "mark"
        /\ \/ queue' = mark_succeeded(queue, me.job_id, it.symbol,
                                      it.window_start, it.window_end)
           \/ \E err \in Errs :
                 queue' = mark_failed(queue, me.job_id, it.symbol,
                                      it.window_start, it.window_end, err)
        /\ workers' = [workers EXCEPT ![w] = [me EXCEPT !.pc = "pop", !.item = None]]
        /\ ret' = NoRet
        /\ UNCHANGED <<jobs, now, vendor, txns, daily_bars, daily_bars_archive, archiving>>

NextDrain ==
    \/ \E w \in DOMAIN workers : DrainPop(w)
    \/ \E w \in DOMAIN workers : DrainMark(w)

\* the worker keeps calling: a step of the loop that can be taken is taken
SpecDrain == InitDrain /\ [][NextDrain]_vars /\ WF_vars(NextDrain)

(***************************************************************************)
(* Properties of the queue store.                                          *)
(***************************************************************************)

\* C1: for a fixed max_attempts, after any sequence of enqueue, pop_next,
\* mark_succeeded, mark_failed and reset_stale_running calls every queue item
\* has 0 <= attempts <= max_attempts.
C1_AttemptsBounded ==
    \A k \in DOMAIN queue :
        /\ 0 <= queue[k].attempts
        /\ queue[k].attempts <= MaxAttempts

\* an item that used up its attempts, failed its last one and sits next to an
\* item pop_next has just dispatched
C1_Witness ==
    /\ ret.op = "pop_next"
    /\ ret.val # None
    /\ \E k \in DOMAIN queue :
          /\ queue[k].attempts = MaxAttempts
          /\ queue[k].state = "failed"

\* the stated order on rows: pending before failed, then attempts ascending,
\* then symbol ascending (rank of a state, then the two columns)
C2_Rank(row) == IF row.state = "pending" THEN 0 ELSE 1

C2_Precedes(q, a, b) ==
    LET ra == <<C2_Rank(q[a]), q[a].attempts, SymOrd(a.symbol)>>
        rb == <<C2_Rank(q[b]), q[b].attempts, SymOrd(b.symbol)>>
    IN  \E i \in 1..3 :
            /\ ra[i] < rb[i]
            /\ \A h \in 1..(i - 1) : ra[h] = rb[h]

C2_EligibleRows(q, job_id) ==
    {k \in DOMAIN q :
        /\ k.job_id = job_id
        /\ q[k].state = "pending" \/ q[k].state = "failed"
        /\ q[k].attempts < MaxAttempts}

\* C2: pop_next returns None exactly when the job has no item with state in
\* {pending, failed} and attempts < max_attempts; otherwise the item it picks
\* is eligible and no eligible item of the job precedes it in the order
\* (pending before failed, attempts ascending, symbol ascending).
C2_PopNextPicksMinimal ==
    [][ret'.op = "pop_next" =>
         LET elig == C2_EligibleRows(queue, ret'.job_id) IN
         /\ (ret'.val = None) <=> (elig = {})
         /\ ret'.val # None =>
              LET it == ret'.val[1]
                  k  == Key(ret'.job_id, it.symbol, it.window_start, it.window_end)
              IN  /\ k \in elig
                  /\ \A o \in elig : ~C2_Precedes(queue, o, k)
                  /\ queue'[k].state = "running"]_vars

\* pop_next has dispatched an item while a failed item with attempts left and a
\* never-tried item both stay behind
C2_Witness ==
    /\ ret.op = "pop_next"
    /\ ret.val # None
    /\ \E a, b \in DOMAIN queue :
          /\ queue[a].state = "failed" /\ queue[a].attempts < MaxAttempts
          /\ queue[b].state = "pending" /\ queue[b].attempts = 0

\* C3: pop_next is deterministic: two executions of pop_next from the same
\* queue state select the same item.
C3_PopNextDeterministic ==
    ret.op = "pop_next" => ret.val = ret.again

(***************************************************************************)
(* Properties of the queue under worker runs, kills and resumes.           *)
(***************************************************************************)
\* the edges of the item state machine
C4_Edge(old, new) ==
    \/ old.state = "pending" /\ new.state = "running"
    \/ old.state = "failed" /\ new.state = "running" /\ old.attempts < MaxAttempts
    \/ old.state = "running" /\ new.state = "succeeded"
    \/ old.state = "running" /\ new.state = "failed"
    \/ old.state = "running" /\ new.state = "pending"

\* C4: every state change of a queue item is one of the state machine's edges:
\* pending->running and failed->running (only with attempts < max_attempts
\* before) by a pop, running->succeeded, running->failed, running->pending;
\* no row disappears.
C4_OnlyStateMachineEdges ==
    [][\A k \in DOMAIN queue :
          /\ k \in DOMAIN queue'
          /\ queue'[k].state # queue[k].state =>
                /\ C4_Edge(queue[k], queue'[k])
                /\ queue'[k].state = "running" => ret'.op = "pop_next"]_vars

\* a retry (failed->running) is under way while another item has succeeded
C4_Witness ==
    \E a, b \in DOMAIN queue :
        /\ queue[a].state = "running" /\ queue[a].attempts = MaxAttempts
        /\ queue[b].state = "succeeded"

\* C5: once a queue item is succeeded it stays succeeded: no later step
\* changes its state or its attempts.
C5_SucceededIsFinal ==
    [][\A k \in DOMAIN queue :
          queue[k].state = "succeeded" =>
              /\ k \in DOMAIN queue'
              /\ queue'[k].state = "succeeded"
              /\ queue'[k].attempts = queue[k].attempts]_vars

\* a resumed worker has drained the queue next to an item that succeeded
C5_Witness ==
    /\ ret.op = "pop_next" /\ ret.val = None
    /\ \E k \in DOMAIN queue : queue[k].state = "succeeded" /\ queue[k].attempts = 1
    /\ \E k \in DOMAIN queue : queue[k].state = "pending" /\ queue[k].attempts = MaxAttempts

\* the failed items of a job that have used up their attempts
C6_Exhausted(q, job_id) ==
    {k \in RowsOf(q, job_id) : q[k].state = "failed" /\ q[k].attempts >= MaxAttempts}

\* C6: a failed item with attempts < max_attempts is eligible for the next
\* pop_next (pop_next does not return None while there is one); an item whose
\* attempts have reached max_attempts is never popped again, a failed one
\* stays failed; and when a loop that ran as the job's only worker writes the
\* terminal state, symbols_failed counts every such item.
C6_RetryUntilExhausted ==
    [][/\ (ret'.op = "pop_next" /\ ret'.val = None) =>
              \A k \in RowsOf(queue, ret'.job_id) :
                  ~(queue[k].state = "failed" /\ queue[k].attempts < MaxAttempts)
       /\ \A k \in DOMAIN queue :
              queue[k].attempts >= MaxAttempts =>
                  /\ k \in DOMAIN queue'
                  /\ queue'[k].attempts = queue[k].attempts
                  /\ queue[k].state = "failed" => queue'[k] = queue[k]
       /\ (/\ ret'.op = "worker_loop"
           /\ ret'.val[1].solo
           /\ jobs'[ret'.job_id].state # "running") =>
              jobs'[ret'.job_id].symbols_failed
                  >= Cardinality(C6_Exhausted(queue', ret'.job_id))]_vars

\* a worker loop has finished a job with an item that failed all its attempts
C6_Witness ==
    /\ ret.op = "worker_loop"
    /\ ret.val[1].solo
    /\ jobs[ret.job_id].state = "failed"
    /\ C6_Exhausted(queue, ret.job_id) # {}

\* the items of a job left pending or running with attempts to spare
C7_Unfinished(q, job_id) ==
    {k \in RowsOf(q, job_id) :
        q[k].state \in {"pending", "running"} /\ q[k].attempts < MaxAttempts}

\* C7 as stated: after a worker loop has run to completion, every item of the
\* job in state pending or running has attempts >= max_attempts, from every
\* durable queue state the loop can start from.
C7_NoUnfinishedAfterLoop ==
    (ret.op = "worker_loop" /\ ret.val[1].solo) =>
        C7_Unfinished(queue, ret.job_id) = {}

\* C7 as amended: after a worker loop that ran as the job's only worker and
\* whose reset_stale_running step left no item running (every running item
\* it found was older than the stale threshold) has run to completion, every
\* item in state pending or running has attempts >= max_attempts.
C7_NoUnfinishedAfterCleanLoop ==
    (ret.op = "worker_loop" /\ ret.val[1].solo /\ ret.val[1].clean) =>
        C7_Unfinished(queue, ret.job_id) = {}

\* such a loop has completed and left behind an item that a kill orphaned on
\* its last attempt
C7_Witness ==
    /\ ret.op = "worker_loop" /\ ret.val[1].solo /\ ret.val[1].clean
    /\ \E k \in RowsOf(queue, ret.job_id) :
          queue[k].state = "pending" /\ queue[k].attempts = MaxAttempts

\* the worker loop run on the freshly enqueued queue, never killed
RECURSIVE DrainNoCrash(_, _)
DrainNoCrash(q, job_id) ==
    LET cands == pop_select(q, job_id, MaxAttempts) IN
    IF cands = {} THEN q
    ELSE LET k  == CHOOSE x \in cands : TRUE
             q1 == pop_update(q, k, 0)
         IN  IF VendorOk(vendor, k.symbol, q1[k].attempts)
             THEN DrainNoCrash(mark_succeeded(q1, job_id, k.symbol, k.window_start,
                                              k.window_end), job_id)
             ELSE DrainNoCrash(mark_failed(q1, job_id, k.symbol, k.window_start,
                                           k.window_end, <<"e">>), job_id)

NoCrashRun(job_id) == DrainNoCrash([k \in RowsOf(queue, job_id) |-> NewRow], job_id)

\* C8: crash recovery: after a kill and a resume later than the stale
\* threshold, the completed loop leaves the per-state queue counts of a run of
\* the same job with the same vendor outcomes and no crash.
C8_CrashRunMatchesNoCrashRun ==
    (ret.op = "worker_loop" /\ ret.val[1].solo /\ ret.val[1].clean) =>
        get_counts(queue, ret.job_id) = get_counts(NoCrashRun(ret.job_id), ret.job_id)

\* C9: liveness under crashes: when the job is resumed after the stale
\* threshold and a worker loop then runs to completion, every item of the job
\* is succeeded or failed and the job is finalized (state != running,
\* finished_at set).
C9_ResumedLoopFinishesJob ==
    (ret.op = "worker_loop" /\ ret.val[1].solo /\ ret.val[1].clean) =>
        /\ \A k \in RowsOf(queue, ret.job_id) : queue[k].state \in {"succeeded", "failed"}
        /\ jobs[ret.job_id].state # "running"
        /\ jobs[ret.job_id].finished_at # None

\* C10: at most one worker loop is active for a given job id at any time,
\* under any sequence of start-resumable and resume commands.
C10_OneWorkerPerJob ==
    \A job_id \in DOMAIN jobs :
        Cardinality({w \in DOMAIN workers : workers[w].job_id = job_id}) <= 1

C12_AtMostOneRunning ==
    \A job_id \in DOMAIN jobs : CountState(queue, job_id, "running") <= 1

\* C12 as amended: with one worker per job, the only step that takes a job
\* from at most one running item to more is a pop by a worker loop whose
\* reset_stale_running step left an item running (a loop resumed sooner than
\* the stale threshold after a hard kill during an item).
C12_SecondRunningOnlyAfterEarlyResume ==
    [][\A job_id \in DOMAIN jobs :
          (/\ CountState(queue, job_id, "running") <= 1
           /\ CountState(queue', job_id, "running") > 1) =>
              \E w \in DOMAIN workers :
                  /\ workers[w].job_id = job_id
                  /\ workers[w].pc = "pop"
                  /\ ~workers[w].clean
                  /\ ret'.op = "pop_next" /\ ret'.val # None]_vars

\* after a kill during an item and a resume later than the stale threshold,
\* the worker holds the recovered item and it is the job's only running item
C12_Witness ==
    \E w \in DOMAIN workers :
        /\ workers[w].pc = "exec"
        /\ workers[w].clean
        /\ now > 0
        /\ CountState(queue, workers[w].job_id, "running") = 1
        /\ \E k \in RowsOf(queue, workers[w].job_id) :
              queue[k].state = "running" /\ queue[k].attempts = MaxAttempts

\* C13: in every reachable state of every job record, finished_at is set if
\* and only if state != running.
C13_FinishedIffNotRunning ==
    \A job_id \in DOMAIN jobs :
        (jobs[job_id].finished_at # None) <=> (jobs[job_id].state # "running")

\* C14: the terminal state of a job is written once: after the state has
\* become succeeded or failed, no later step changes the job's state or its
\* finished_at.
C14_TerminalWrittenOnce ==
    [][\A job_id \in DOMAIN jobs :
          jobs[job_id].state \in {"succeeded", "failed"} =>
              /\ jobs'[job_id].state = jobs[job_id].state
              /\ jobs'[job_id].finished_at = jobs[job_id].finished_at]_vars

\* C15: every job in a terminal state (succeeded or failed) has
\* symbols_attempted = symbols_succeeded + symbols_failed and finished_at set,
\* whichever path wrote the terminal state.
C15_TerminalCountersAddUp ==
    \A job_id \in DOMAIN jobs :
        jobs[job_id].state \in {"succeeded", "failed"} =>
            /\ jobs[job_id].symbols_attempted
                   = jobs[job_id].symbols_succeeded + jobs[job_id].symbols_failed
            /\ jobs[job_id].finished_at # None

\* a handler has marked its job failed from the except branch, after the job
\* store refused the first update
C15_Witness ==
    /\ ret.op \in {"ingest_window", "ingest_full_history"}
    /\ ret.val = None
    /\ jobs[ret.job_id].state = "failed"
    /\ jobs[ret.job_id].symbols_succeeded > 0
    /\ jobs[ret.job_id].symbols_failed > 0

C17_FailedMeansExhaustedItem ==
    \A job_id \in DOMAIN jobs :
        jobs[job_id].state = "failed" =>
            \E k \in RowsOf(queue, job_id) :
                queue[k].state = "failed" /\ queue[k].attempts >= MaxAttempts

\* C18: while a job's state is running, none of symbols_attempted,
\* symbols_succeeded and symbols_failed decreases from one write to the next.
C18_CountersMonotoneWhileRunning ==
    [][\A job_id \in DOMAIN jobs :
          (jobs[job_id].state = "running" /\ jobs'[job_id].state = "running") =>
              /\ jobs'[job_id].symbols_attempted >= jobs[job_id].symbols_attempted
              /\ jobs'[job_id].symbols_succeeded >= jobs[job_id].symbols_succeeded
              /\ jobs'[job_id].symbols_failed >= jobs[job_id].symbols_failed]_vars

\* C19: when a job is in a terminal state, symbols_succeeded is the number of
\* its queue items in state succeeded and symbols_failed the number in state
\* failed.
C19_TerminalCountersAreQueueTruth ==
    \A job_id \in DOMAIN jobs :
        (jobs[job_id].state \in {"succeeded", "failed"} /\ RowsOf(queue, job_id) # {}) =>
            /\ jobs[job_id].symbols_succeeded = get_counts(queue, job_id).succeeded
            /\ jobs[job_id].symbols_failed = get_counts(queue, job_id).failed

\* the keys of an items list
C20_Keys(job_id, items) ==
    {Key(job_id, Upper(items[i][1]), items[i][2], items[i][3]) : i \in 1..Len(items)}

\* C20: enqueue is idempotent on (job_id, symbol, window_start, window_end):
\* an enqueue leaves every existing row as it is (state, attempts,
\* last_attempt_at, last_error), adds exactly the keys of its items that are
\* new, each as pending with attempts = 0, and a second enqueue of the same
\* items changes nothing.
C20_EnqueueIdempotent ==
    [][ret'.op = "enqueue" =>
          \E items \in ItemLists :
              /\ ret'.val = Some(Len(items))
              /\ DOMAIN queue' = DOMAIN queue \cup C20_Keys(ret'.job_id, items)
              /\ \A k \in DOMAIN queue : queue'[k] = queue[k]
              /\ \A k \in DOMAIN queue' \ DOMAIN queue :
                    /\ queue'[k].state = "pending"
                    /\ queue'[k].attempts = 0
                    /\ queue'[k].last_attempt_at = None
                    /\ queue'[k].last_error = None
              /\ enqueue(queue', ret'.job_id, items) = queue']_vars

\* an enqueue has met a row that was already dispatched and finished, and
\* added a new one next to it
C20_Witness ==
    /\ ret.op = "enqueue"
    /\ ret.val = Some(2)
    /\ \E a, b \in DOMAIN queue :
          /\ queue[a].state = "failed" /\ queue[a].attempts = 1
          /\ queue[a].last_error # None
          /\ queue[b] = NewRow

\* C21: enqueue returns the number of rows it inserted: items whose primary
\* key is already in the table, or appears earlier in the same call, are not
\* counted, and a second enqueue of the same items returns 0.
C21_EnqueueReturnsInserted ==
    [][ret'.op = "enqueue" =>
          ret'.val = Some(Cardinality(DOMAIN queue') - Cardinality(DOMAIN queue))]_vars

\* C22: resume is idempotent on a completed job: a worker loop run again for
\* a job that was in a terminal state pops no item, leaves every queue row
\* unchanged, adds no bar rows, and when it ends the job's state and counters
\* are what they were before the resume.
C22_ResumeOfCompletedJobIsNoOp ==
    [][\A w \in DOMAIN workers :
          LET me == workers[w] IN
          ("resumed" \in DOMAIN me /\ me.resumed.job.state \in {"succeeded", "failed"}) =>
              /\ ~(ret'.op = "pop_next" /\ ret'.val # None)
              /\ queue' = me.resumed.queue
              /\ daily_bars' = me.resumed.daily_bars
              /\ (ret'.op = "worker_loop" /\ w \notin DOMAIN workers') =>
                    LET old == me.resumed.job
                        new == jobs'[me.job_id]
                    IN  /\ new.state = old.state
                        /\ new.symbols_attempted = old.symbols_attempted
                        /\ new.symbols_succeeded = old.symbols_succeeded
                        /\ new.symbols_failed = old.symbols_failed]_vars

\* C23: when the job store fails during a run (the handler's write of the
\* outcome raises and the handler re-raises), the job is left in state running
\* with finished_at unset, so that it can be resumed: a store or unexpected
\* error never writes a terminal state.
C23_StoreErrorLeavesJobRunning ==
    (ret.op \in {"ingest_window", "ingest_full_history"} /\ ret.val = None) =>
        /\ jobs[ret.job_id].state = "running"
        /\ jobs[ret.job_id].finished_at = None

\* a request with an input error: start after end, window_days below 1, or
\* filters that select no symbol
C24_InputError(req) ==
    \/ req.start > req.end
    \/ req.window_days # None /\ req.window_days[1] < 1
    \/ req.symbols = <<>>

\* C24: input errors never create a job: a handler that starts an ingest
\* answers a request with start > end, window_days < 1 or an empty universe
\* selection with a rejection and leaves the job table and the queue table
\* as they were.
C24_InputErrorCreatesNoJob ==
    [][("req" \in DOMAIN ret' /\ ret' # ret /\ C24_InputError(ret'.req)) =>
          /\ ret'.val = Rejected
          /\ jobs' = jobs
          /\ queue' = queue]_vars

(***************************************************************************)
(* Properties of the read side.                                            *)
(***************************************************************************)
\* C25: a progress query for a job id that does not exist, and a latest-job
\* query on an empty job table, yield a NotFound error and never a progress
\* record; no table is changed.
C25_UnknownJobIsNotFound ==
    [][(\/ ret'.op = "get_job_progress" /\ ret'.job_id \notin DOMAIN jobs
        \/ ret'.op = "get_latest_eodhd_job" /\ DOMAIN jobs = {}) =>
          /\ ret'.val = NotFound
          /\ jobs' = jobs
          /\ queue' = queue
          /\ daily_bars' = daily_bars]_vars

(***************************************************************************)
(* Properties of window partitioning.                                      *)
(***************************************************************************)
\* C26: for every start <= end and window_days >= 1 the windows cut from
\* [start, end] begin at start, end at end, follow one another without gap or
\* overlap (each starts the day after the one before ends), and each spans
\* at least one and at most window_days days.
C26_WindowsPartitionRange ==
    ret.op = "build_windows" =>
        LET ws == ret.val[1]
            n  == Len(ws)
        IN  /\ n >= 1
            /\ ws[1][1] = ret.req.start
            /\ ws[n][2] = ret.req.end
            /\ \A i \in 1..n :
                  /\ ws[i][1] <= ws[i][2]
                  /\ ws[i][2] - ws[i][1] + 1 <= ret.req.window_days[1]
            /\ \A i \in 1..(n - 1) : ws[i + 1][1] = ws[i][2] + 1

\* a range cut into several windows, the last one shorter than window_days
C26_Witness ==
    /\ ret.op = "build_windows"
    /\ Len(ret.val[1]) >= 3
    /\ LET last == ret.val[1][Len(ret.val[1])] IN
       last[2] - last[1] + 1 < ret.req.window_days[1]

(***************************************************************************)
(* Properties of the bar store.                                            *)
(***************************************************************************)
\* C27: after archive_old_daily_bars(cutoff) has returned successfully, the
\* live table holds no row with trade_date < cutoff, and every live row with
\* trade_date >= cutoff is as it was (and no row was added).
C27_ArchiveClearsOldRowsOnly ==
    [][(/\ ret'.op = "archive_old_daily_bars"
        /\ ret'.val # None
        /\ archiving' = None) =>
          LET cutoff_date == ret'.req.cutoff_date IN
          /\ \A k \in DOMAIN daily_bars' : ~(k.trade_date < cutoff_date)
          /\ \A k \in DOMAIN daily_bars :
                ~(k.trade_date < cutoff_date) =>
                    k \in DOMAIN daily_bars' /\ daily_bars'[k] = daily_bars[k]
          /\ DOMAIN daily_bars' \subseteq DOMAIN daily_bars]_vars

\* an archive call has moved two rows and left the row dated on the cutoff
\* day in the live table
C27_Witness ==
    /\ ret.op = "archive_old_daily_bars"
    /\ ret.val # None
    /\ ret.val[1].archived >= 2
    /\ Cardinality(DOMAIN daily_bars_archive) >= 2
    /\ \E k \in DOMAIN daily_bars : k.trade_date = ret.req.cutoff_date

\* C28: in every reachable state no (symbol, trade_date) key is in both the
\* live table and the archive table, under any interleaving of upserts
\* (re-ingest of an archived window included) and archive calls.
C28_LiveAndArchiveDisjoint ==
    DOMAIN daily_bars \cap DOMAIN daily_bars_archive = {}

\* C29: archive_old_daily_bars is idempotent: a second call with the same
\* cutoff, with no upsert between the two calls, leaves the live and the
\* archive table unchanged and returns archived = 0 and deleted = 0.
\* (The call before has returned and nothing ran since; the step is the next
\* archive call with its cutoff, whether it returns at once or opens a
\* transaction to move rows.)
C29_ArchiveIdempotent ==
    [][(/\ ret.op = "archive_old_daily_bars" /\ ret.val # None /\ archiving = None
        /\ \/ /\ archiving' # None
              /\ archiving'[1].cutoff_date = ret.req.cutoff_date
           \/ /\ archiving' = None
              /\ ret'.op = "archive_old_daily_bars"
              /\ ret'.req.cutoff_date = ret.req.cutoff_date) =>
          /\ archiving' = None
          /\ ret'.val = Some([archived |-> 0, deleted_from_hot |-> 0])
          /\ daily_bars' = daily_bars
          /\ daily_bars_archive' = daily_bars_archive]_vars

\* a second archive call with the cutoff of a call that had moved rows has
\* returned, with rows left in both tables
C29_Witness ==
    /\ ret.op = "archive_old_daily_bars"
    /\ ret.val = Some([archived |-> 0, deleted_from_hot |-> 0])
    /\ ret.prev # None
    /\ ret.prev[1].archived > 0
    /\ daily_bars # << >>
    /\ daily_bars_archive # << >>

\* the last bar of a list with a given trade date
C30_LastBar(bars, d) ==
    LET i == CHOOSE x \in 1..Len(bars) :
                 /\ bars[x].time[1] = d
                 /\ \A y \in (x + 1)..Len(bars) : bars[y].time[1] # d
    IN  bars[i]

\* C30: upserts are idempotent: upsert_daily_bars(symbol, bars) applied again
\* with the same input leaves the live table as the first application left
\* it; an upsert replaces the row of a key it carries (the row then holds the
\* values of the bars list), adds the keys that were missing, and leaves
\* every other row alone.
C30_UpsertIdempotent ==
    [][ret'.op = "upsert_daily_bars" =>
          LET symbol == Upper(ret'.req.symbol)
              bars   == ret'.req.bars
              dates  == {bars[i].time[1] : i \in 1..Len(bars)}
              keys   == {BarKey(symbol, d) : d \in dates}
          IN  /\ DOMAIN daily_bars' = DOMAIN daily_bars \cup keys
              /\ \A k \in DOMAIN daily_bars \ keys : daily_bars'[k] = daily_bars[k]
              /\ \A d \in dates :
                    LET b   == C30_LastBar(bars, d)
                        row == daily_bars'[BarKey(symbol, d)]
                    IN  /\ row.close = b.close
                        /\ row.vwap = (IF "vwap" \in DOMAIN b THEN <<b.vwap>> ELSE <<>>)
                        /\ row.adj_close = (IF "adj_close" \in DOMAIN b
                                            THEN <<b.adj_close>> ELSE <<b.close>>)
              /\ upsert_daily_bars(daily_bars', ret'.req.symbol, bars) = daily_bars'
              /\ ret = ret' => daily_bars' = daily_bars]_vars

\* an upsert under the lower-case symbol has written two rows, one of them
\* for a date whose earlier row, with another close, sits in the archive
C30_Witness ==
    /\ ret.op = "upsert_daily_bars"
    /\ ret.req.symbol = "a"
    /\ Len(ret.req.bars) = 2
    /\ \E k \in DOMAIN daily_bars :
          /\ k.symbol = "A" /\ k.trade_date = 1
          /\ daily_bars[k].close = 11
    /\ \E k \in DOMAIN daily_bars_archive :
          /\ k.symbol = "A" /\ k.trade_date = 1
          /\ daily_bars_archive[k].close = 10

(***************************************************************************)
(* Properties of the universe selection.                                   *)
(***************************************************************************)

\* C31: the list select_symbols returns is ordered by market_cap descending
\* with ties broken by symbol ascending, so that the table and the filters
\* determine the list and the symbols inside the max_symbols limit.
C31_SelectOrderedByCapThenSymbol ==
    ret.op = "select_universe_symbols" =>
        LET symbols == ret.val[1]
            table   == ret.req.table[1]
        IN  \A i, j \in 1..Len(symbols) :
                i < j => \/ table[symbols[i]].market_cap[1] > table[symbols[j]].market_cap[1]
                         \/ /\ table[symbols[i]].market_cap[1] = table[symbols[j]].market_cap[1]
                            /\ SymOrd(symbols[i]) < SymOrd(symbols[j])

\* C32: in every reachable state a queue item in state running has
\* last_attempt_at set.
C32_RunningHasLastAttempt ==
    \A k \in DOMAIN queue :
        queue[k].state = "running" => queue[k].last_attempt_at # None

\* an item is running since before the clock advanced, next to an item that
\* was never dispatched
C32_Witness ==
    /\ \E k \in DOMAIN queue :
          /\ queue[k].state = "running"
          /\ queue[k].last_attempt_at # None
          /\ queue[k].last_attempt_at[1] < now
    /\ \E k \in DOMAIN queue :
          /\ queue[k].state = "pending"
          /\ queue[k].last_attempt_at = None

\* C37: in every reachable state a queue item has a non-null last_error if
\* and only if its state is failed.
C37_LastErrorIffFailed ==
    \A k \in DOMAIN queue :
        queue[k].last_error # None <=> queue[k].state = "failed"

\* one item is failed with its error, one was dispatched twice and is
\* succeeded, one is running on its second attempt
C37_Witness ==
    /\ \E k \in DOMAIN queue :
          queue[k].state = "failed" /\ queue[k].last_error # None
    /\ \E k \in DOMAIN queue :
          /\ queue[k].state \in {"succeeded", "running"}
          /\ queue[k].attempts = 2
          /\ queue[k].last_error = None

\* C33: right after the reconciliation step of a worker start, and after
\* every progress write of the drain, the job's symbols_succeeded and
\* symbols_failed equal the numbers of the job's queue items in state
\* succeeded and failed (here for a worker that is the only one of its job).
C33_ProgressIsQueueTruth ==
    [][\A w \in DOMAIN workers :
          (/\ workers[w].pc \in {"reconcile", "progress"}
           /\ w \in DOMAIN workers'
           /\ workers'[w].pc = "pop"
           /\ workers'[w].solo) =>
              LET job_id == workers[w].job_id IN
              /\ jobs'[job_id].symbols_succeeded = CountState(queue', job_id, "succeeded")
              /\ jobs'[job_id].symbols_failed = CountState(queue', job_id, "failed")]_vars

\* C38: at all times a job's symbols_attempted is at most the number of the
\* job's queue items, so the reported progress never exceeds 100 percent,
\* also when items fail several times before their final outcome.
C38_AttemptedAtMostTotal ==
    \A job_id \in DOMAIN jobs :
        jobs[job_id].symbols_attempted <= Cardinality(RowsOf(queue, job_id))

\* the queue row of the item a worker holds
C34_ItemKey(me) ==
    Key(me.job_id, me.item[1].symbol, me.item[1].window_start, me.item[1].window_end)

\* C34: an item failure is not fatal to the job.  In the worker loop the
\* step that handles a failed item changes only that item's row (state
\* failed, last_error set), leaves the job record and the bar table alone
\* and keeps the worker in its loop; in the two ingest routes every symbol of
\* the universe is attempted whatever failed before it, and the bars of the
\* symbols the vendor serves are written.
C34_ItemFailureNotFatal ==
    [][/\ \A w \in DOMAIN workers :
            (/\ workers[w].pc = "exec"
             /\ w \in DOMAIN workers'
             /\ workers'[w] # workers[w]
             /\ workers'[w].failed = workers[w].failed + 1) =>
                LET me == workers[w]
                    k  == C34_ItemKey(me)
                IN  /\ DOMAIN queue' = DOMAIN queue
                    /\ \A o \in DOMAIN queue \ {k} : queue'[o] = queue[o]
                    /\ queue'[k].state = "failed"
                    /\ queue'[k].last_error # None
                    /\ queue'[k].attempts = queue[k].attempts
                    /\ jobs' = jobs
                    /\ daily_bars' = daily_bars
                    /\ workers'[w].pc = "progress"
                    /\ workers'[w].succeeded = me.succeeded
       /\ (/\ ret'.op \in {"ingest_window", "ingest_full_history"}
           /\ ret'.val # None
           /\ ret'.val # Rejected) =>
                LET req == ret'.req
                    v   == Answers(vendor, req.start, req.end)
                IN  /\ ret'.val[1].symbols_succeeded + ret'.val[1].symbols_failed
                          = Len(req.symbols)
                    /\ \A i \in 1..Len(req.symbols) :
                          VendorOk(v, req.symbols[i], 1) =>
                              \A d \in TradingDays \cap (req.start..req.end) :
                                  BarKey(req.symbols[i], d) \in DOMAIN daily_bars'
      ]_vars

\* a worker holds the next item of its job after it has marked an item
\* failed, and the job is still running
C34_Witness ==
    \E w \in DOMAIN workers :
        /\ workers[w].pc = "exec"
        /\ workers[w].failed = 1
        /\ workers[w].item[1].symbol = "B"
        /\ jobs[workers[w].job_id].state = "running"
        /\ \E k \in RowsOf(queue, workers[w].job_id) :
              /\ k.symbol = "A"
              /\ queue[k].state = "failed"
              /\ queue[k].last_error # None

\* C35: every job started through the background full-history handler
\* leaves state running: when the background task has ended, normally or by
\* an exception, the job record is in state succeeded or failed with
\* finished_at set.
C35_BackgroundJobLeavesRunning ==
    ret.op = "run_full_history_ingest" =>
        /\ jobs[ret.job_id].state \in {"succeeded", "failed"}
        /\ jobs[ret.job_id].finished_at # None

\* the queue table cut down to the rows of one job
C36_OwnRows(q, job_id) == [k \in RowsOf(q, job_id) |-> q[k]]

\* C36: job isolation.  pop_next, mark_succeeded, mark_failed,
\* reset_stale_running and counts called for one job id change no queue row
\* of another job id, and what they do to the job's own rows and what they
\* return is what they do and return on a table that holds the job's rows
\* only.
C36_JobIsolation ==
    [][(/\ ret'.op \in {"pop_next", "mark_succeeded", "mark_failed",
                        "reset_stale_running_to_pending", "get_counts"}
        /\ <<queue, ret>>' # <<queue, ret>>) =>
          LET job_id == ret'.job_id
              own    == C36_OwnRows(queue, job_id)
          IN  /\ DOMAIN queue' = DOMAIN queue
              /\ \A k \in DOMAIN queue : k.job_id # job_id => queue'[k] = queue[k]
              /\ ret'.op = "get_counts" => ret'.val = Some(get_counts(own, job_id))
              /\ ret'.op = "reset_stale_running_to_pending" =>
                    C36_OwnRows(queue', job_id)
                        = reset_stale_running_to_pending(own, job_id, now, StaleMinutes)
              /\ ret'.op = "pop_next" =>
                    IF ret'.val = None
                    THEN pop_select(own, job_id, MaxAttempts) = {}
                    ELSE \E k \in pop_select(own, job_id, MaxAttempts) :
                            /\ ret'.val = Some(pop_item(own, k))
                            /\ C36_OwnRows(queue', job_id) = pop_update(own, k, now)
      ]_vars

\* a call has marked job j1's item (A, 1, 2) failed while job j2's item
\* (A, 1, 2) is running, j2's dispatch being older than the stale threshold
C36_Witness ==
    /\ ret.op = "mark_failed"
    /\ ret.job_id = "j1"
    /\ Key("j1", "A", 1, 2) \in DOMAIN queue
    /\ Key("j2", "A", 1, 2) \in DOMAIN queue
    /\ queue[Key("j1", "A", 1, 2)].state = "failed"
    /\ queue[Key("j2", "A", 1, 2)].state = "running"
    /\ queue[Key("j2", "A", 1, 2)].last_attempt_at[1] < now

\* C39: archive_old_daily_bars loses no data.  The transaction of a call
\* that returns leaves every row the live table held either in the live
\* table (trade_date >= cutoff) or in the archive table (trade_date <
\* cutoff), with the same column values; the steps of the call outside the
\* transaction, and a call that fails, leave both tables as they were.
C39_ArchiveLosesNoData ==
    [][/\ (/\ ret'.op = "archive_old_daily_bars"
           /\ ret'.val # None
           /\ <<ret, daily_bars, daily_bars_archive, archiving>>'
                 # <<ret, daily_bars, daily_bars_archive, archiving>>) =>
              \A k \in DOMAIN daily_bars :
                  IF k.trade_date < ret'.req.cutoff_date
                  THEN /\ k \in DOMAIN daily_bars_archive'
                       /\ daily_bars_archive'[k] = daily_bars[k]
                  ELSE /\ k \in DOMAIN daily_bars'
                       /\ daily_bars'[k] = daily_bars[k]
       /\ (\/ archiving = None /\ archiving' # None
           \/ ret'.op = "archive_old_daily_bars" /\ ret'.val = None) =>
              /\ daily_bars' = daily_bars
              /\ daily_bars_archive' = daily_bars_archive
      ]_vars

\* an archive call has moved two rows into the archive, one of them with an
\* adjusted close, and has left a row with a vwap in the live table
C39_Witness ==
    /\ ret.op = "archive_old_daily_bars"
    /\ ret.val # None
    /\ ret.val[1].archived = 2
    /\ \E k \in DOMAIN daily_bars_archive :
          k.trade_date = 1 /\ daily_bars_archive[k].close = 11
    /\ \E k \in DOMAIN daily_bars_archive :
          k.trade_date = 2 /\ daily_bars_archive[k].adj_close = Some(19)
    /\ \E k \in DOMAIN daily_bars :
          k.trade_date = 3 /\ daily_bars[k].vwap # None

\* C40: the drain loop terminates.  From any queue state of a job with N
\* items, a worker that keeps calling pop_next and marks each popped item
\* succeeded or failed has been handed at most N * max_attempts items, and
\* in the end pop_next returns None to it, whatever the outcomes are.
C40_DrainTerminates ==
    /\ [](\A w \in DOMAIN workers :
             "pops" \in DOMAIN workers[w] =>
                 workers[w].pops
                     <= Cardinality(RowsOf(queue, workers[w].job_id)) * MaxAttempts)
    /\ <>(\A w \in DOMAIN workers :
             /\ workers[w].pc = "done"
             /\ ret.op = "pop_next"
             /\ ret.val = None)

\* pop_next has returned None to a worker after N * max_attempts pops of a
\* job of two items, each of which failed on every attempt
C40_Witness ==
    \E w \in DOMAIN workers :
        /\ workers[w].pc = "done"
        /\ Cardinality(RowsOf(queue, workers[w].job_id)) = 2
        /\ workers[w].pops = 2 * MaxAttempts
        /\ \A k \in RowsOf(queue, workers[w].job_id) :
              queue[k].state = "failed" /\ queue[k].attempts = MaxAttempts

====
